---- MODULE Spec2Model ----
(***************************************************************************)
(* changelogger: commit classification, version policy, section rendering  *)
(* and changelog merge, as state machines over the code of src/src/*.rs.   *)
(*                                                                         *)
(* Strings are sequences of one-character strings, so that prefix          *)
(* stripping, trimming and regular-expression matching are computed the    *)
(* way the code computes them.                                             *)
(***************************************************************************)
EXTENDS Integers, Sequences, FiniteSets, TLC

VARIABLES
    \* classify.rs, one call of auto_classify / prefix_mapping
    c_mode,      \* "classify" | "prefix": which function this run applies
    c_pc,        \* "input" | "done"
    c_in,        \* the CommitInfo handed to auto_classify
    c_out,       \* the CommitInfo after the call (&mut commit)
    c_cat,       \* the Option<CommitCategory> returned
    p_in,        \* the &str handed to prefix_mapping
    p_out,       \* the Option<CommitCategory> it returned
    \* main.rs, the version policy of lines 186-212 on its own
    v_pc,        \* "input" | "done"
    v_last,      \* last_version
    v_keys,      \* the categories that are keys of grouped
    v_new,       \* the version computed
    \* changelog.rs, calls of write_changelog on one file
    w_file,      \* the file at the path
    w_prev,      \* the file as the last call found it
    w_section,   \* new_section of the last call
    w_result,    \* "none" | "Ok" | "Err": what the last call returned
    w_calls,     \* number of calls made
    w_first,     \* the file as the first call found it
    w_log,       \* the calls made, oldest first: [section, ok] of each
    \* main.rs, one run of main
    pc,              \* position in main
    error,           \* the error main returned, None while there is none
    cli,             \* the parsed command line
    file,            \* the file at cli.output
    file_before,     \* that file as the run found it
    last_version,
    commits,         \* what commits_since returned
    classified,      \* Vec<(CommitInfo, Option<CommitCategory>)>
    grouped,         \* HashMap<CommitCategory, Vec<CommitInfo>>
    new_version,
    section,         \* the rendered section, [some |-> FALSE] before rendering
    answers,         \* what the prompt returned for each commit, NotAsked if none
    writes,          \* number of times the run has written to the file
    \* changelog.rs, one call of build_release_section
    r_pc,        \* "input" | "done"
    r_in,        \* the arguments: new_version, last_version, date, remote, grouped
    r_out,       \* the String returned
    \* git.rs, one call of parse_remote_url
    u_pc,        \* "input" | "done"
    u_in,        \* the url
    u_out        \* the Option<RemoteInfo> returned

clsVars == <<c_mode, c_pc, c_in, c_out, c_cat, p_in, p_out>>

verVars == <<v_pc, v_last, v_keys, v_new>>

wrVars == <<w_file, w_prev, w_section, w_result, w_calls, w_first, w_log>>

mainVars == <<pc, error, cli, file, file_before, last_version, commits, classified,
              grouped, new_version, section, answers, writes>>

rndVars == <<r_pc, r_in, r_out>>

urlVars == <<u_pc, u_in, u_out>>

vars == <<clsVars, verVars, wrVars, mainVars, rndVars, urlVars>>

----------------------------------------------------------------------------
(* Characters and strings                                                  *)

None == "None"

\* The white space of the inputs: what `\s` matches and str::trim removes.
Whitespace == {" ", "\t", "\n", "\r"}

\* The character U+0060, which a string literal cannot hold.
Backtick == "BACKTICK"

DigitChars == <<"0", "1", "2", "3", "4", "5", "6", "7", "8", "9">>

UpperChars == <<"A", "B", "C", "D", "E", "F", "G", "H", "I", "J", "K", "L", "M",
                "N", "O", "P", "Q", "R", "S", "T", "U", "V", "W", "X", "Y", "Z">>

LowerChars == <<"a", "b", "c", "d", "e", "f", "g", "h", "i", "j", "k", "l", "m",
                "n", "o", "p", "q", "r", "s", "t", "u", "v", "w", "x", "y", "z">>

Range(f) == {f[i] : i \in DOMAIN f}

IsDigit(c) == c \in Range(DigitChars)

DigitVal(c) == (CHOOSE i \in DOMAIN DigitChars : DigitChars[i] = c) - 1

\* u8::to_ascii_lowercase
ToAsciiLower(c) ==
    IF c \in Range(UpperChars)
    THEN LowerChars[CHOOSE i \in DOMAIN UpperChars : UpperChars[i] = c]
    ELSE c

\* str::eq_ignore_ascii_case
eq_ignore_ascii_case(a, b) ==
    /\ Len(a) = Len(b)
    /\ \A i \in 1..Len(a) : ToAsciiLower(a[i]) = ToAsciiLower(b[i])

Drop(s, n) == SubSeq(s, n + 1, Len(s))

Take(s, n) == SubSeq(s, 1, n)

StartsWith(s, p) == Len(s) >= Len(p) /\ Take(s, Len(p)) = p

\* Index of the first occurrence of character c in s, 0 when there is none.
IndexOf(s, c) ==
    IF \E i \in 1..Len(s) : s[i] = c
    THEN CHOOSE i \in 1..Len(s) : s[i] = c /\ \A j \in 1..(i - 1) : s[j] # c
    ELSE 0

\* Number of leading characters of s that belong to the set cs.
LeadingRun(s, cs) ==
    IF \E i \in 1..Len(s) : s[i] \notin cs
    THEN (CHOOSE i \in 1..Len(s) : s[i] \notin cs /\ \A j \in 1..(i - 1) : s[j] \in cs) - 1
    ELSE Len(s)

\* str::trim_start_matches(ch): every leading ch is removed.
trim_start_matches(s, ch) == Drop(s, LeadingRun(s, {ch}))

RECURSIVE Split(_, _)
\* str::split(sep): the pieces between separators (a piece may be empty).
Split(s, sep) ==
    LET i == IndexOf(s, sep)
    IN  IF i = 0 THEN <<s>> ELSE <<Take(s, i - 1)>> \o Split(Drop(s, i), sep)

RECURSIVE Concat(_)
Concat(ss) == IF ss = <<>> THEN <<>> ELSE Head(ss) \o Concat(Tail(ss))

----------------------------------------------------------------------------
(* semver::Version as the code uses it: parse, order, construct.  Build     *)
(* metadata is left out: no modelled input contains the character '+'.      *)

\* The greatest value of a version component: u64::MAX, scaled down to a
\* width that can be enumerated.  Version::parse refuses a greater number,
\* and `+ 1` on this value overflows.
U64_MAX == 7

Version_new(major, minor, patch) ==
    [major |-> major, minor |-> minor, patch |-> patch, pre |-> <<>>]

RECURSIVE NumVal(_)
NumVal(ds) ==
    IF ds = <<>> THEN 0
    ELSE 10 * NumVal(Take(ds, Len(ds) - 1)) + DigitVal(ds[Len(ds)])

AllDigits(s) == s # <<>> /\ \A i \in 1..Len(s) : IsDigit(s[i])

\* A numeric identifier: digits, without a leading zero unless it is "0".
NumericOk(s) == AllDigits(s) /\ (Len(s) > 1 => s[1] # "0")

IdentChars == Range(DigitChars) \cup Range(UpperChars) \cup Range(LowerChars) \cup {"-"}

\* A pre-release identifier: [0-9A-Za-z-]+, numeric ones without leading zero.
PreIdentOk(s) ==
    /\ s # <<>>
    /\ \A i \in 1..Len(s) : s[i] \in IdentChars
    /\ (AllDigits(s) => NumericOk(s))

\* Version::parse: MAJOR.MINOR.PATCH, then optionally '-' and a non-empty
\* dot-separated pre-release.  [ok |-> FALSE] stands for Err(_).
Version_parse(s) ==
    LET i     == IndexOf(s, "-")
        core  == IF i = 0 THEN s ELSE Take(s, i - 1)
        pre   == IF i = 0 THEN <<>> ELSE Drop(s, i)
        parts == Split(core, ".")
        ids   == Split(pre, ".")
    IN  IF /\ Len(parts) = 3
           /\ \A k \in 1..3 : NumericOk(parts[k]) /\ NumVal(parts[k]) <= U64_MAX
           /\ (i # 0 => \A k \in 1..Len(ids) : PreIdentOk(ids[k]))
        THEN [ok |-> TRUE,
              v |-> [major |-> NumVal(parts[1]), minor |-> NumVal(parts[2]),
                     patch |-> NumVal(parts[3]), pre |-> pre]]
        ELSE [ok |-> FALSE, v |-> Version_new(0, 0, 0)]

\* Characters of identifiers in ASCII order.
AsciiOrder == <<"-">> \o DigitChars \o UpperChars \o LowerChars

CharOrd(c) == CHOOSE i \in DOMAIN AsciiOrder : AsciiOrder[i] = c

CmpInt(a, b) == IF a < b THEN -1 ELSE IF a > b THEN 1 ELSE 0

RECURSIVE CmpLex(_, _)
CmpLex(a, b) ==
    IF a = <<>> /\ b = <<>> THEN 0
    ELSE IF a = <<>> THEN -1
    ELSE IF b = <<>> THEN 1
    ELSE IF a[1] # b[1] THEN CmpInt(CharOrd(a[1]), CharOrd(b[1]))
    ELSE CmpLex(Tail(a), Tail(b))

\* One pre-release identifier against another: numeric ones by value and
\* below alphanumeric ones, alphanumeric ones in ASCII order.
CmpIdent(a, b) ==
    IF AllDigits(a) /\ AllDigits(b) THEN CmpInt(NumVal(a), NumVal(b))
    ELSE IF AllDigits(a) THEN -1
    ELSE IF AllDigits(b) THEN 1
    ELSE CmpLex(a, b)

RECURSIVE CmpIdents(_, _)
CmpIdents(as, bs) ==
    IF as = <<>> /\ bs = <<>> THEN 0
    ELSE IF as = <<>> THEN -1
    ELSE IF bs = <<>> THEN 1
    ELSE IF CmpIdent(as[1], bs[1]) # 0 THEN CmpIdent(as[1], bs[1])
    ELSE CmpIdents(Tail(as), Tail(bs))

\* Prerelease order: the empty pre-release is above every non-empty one.
CmpPre(a, b) ==
    IF a = <<>> /\ b = <<>> THEN 0
    ELSE IF a = <<>> THEN 1
    ELSE IF b = <<>> THEN -1
    ELSE CmpIdents(Split(a, "."), Split(b, "."))

\* impl Ord for Version: major, minor, patch, then pre-release.
Version_cmp(a, b) ==
    IF a.major # b.major THEN CmpInt(a.major, b.major)
    ELSE IF a.minor # b.minor THEN CmpInt(a.minor, b.minor)
    ELSE IF a.patch # b.patch THEN CmpInt(a.patch, b.patch)
    ELSE CmpPre(a.pre, b.pre)

Version_lt(a, b) == Version_cmp(a, b) < 0

Version_le(a, b) == Version_cmp(a, b) <= 0

Version_gt(a, b) == Version_cmp(a, b) > 0

----------------------------------------------------------------------------
(* classify.rs                                                             *)

Major == "Major"
Minor == "Minor"
Patch == "Patch"
Ignore == "Ignore"

CommitCategory == {Major, Minor, Patch, Ignore}

\* struct CommitInfo of git.rs
CommitInfo(oid, short_id, summary, body) ==
    [oid |-> oid, short_id |-> short_id, summary |-> summary, body |-> body]

NoCommit == CommitInfo(0, <<>>, <<>>, <<>>)

\* String constants of classify.rs
S_arrow == <<"-", ">", " ">>
S_docs == <<"d", "o", "c", "s">>
S_doc == <<"d", "o", "c">>
S_style == <<"s", "t", "y", "l", "e">>
S_chore == <<"c", "h", "o", "r", "e">>
S_test == <<"t", "e", "s", "t">>
S_tweak == <<"t", "w", "e", "a", "k">>
S_tweaks == <<"t", "w", "e", "a", "k", "s">>
S_fix == <<"f", "i", "x">>
S_fixes == <<"f", "i", "x", "e", "s">>
S_perf == <<"p", "e", "r", "f">>
S_refactor == <<"r", "e", "f", "a", "c", "t", "o", "r">>
S_patch == <<"p", "a", "t", "c", "h">>
S_feat == <<"f", "e", "a", "t">>
S_minor == <<"m", "i", "n", "o", "r">>
S_breaking == <<"b", "r", "e", "a", "k", "i", "n", "g">>
S_major == <<"m", "a", "j", "o", "r">>

\* is_release_message: "-> " stripped, every leading 'v' trimmed, and the
\* rest parsed as a version.  [ok |-> FALSE] stands for None.
is_release_message(subject) ==
    IF StartsWith(subject, S_arrow)
    THEN Version_parse(trim_start_matches(Drop(subject, Len(S_arrow)), "v"))
    ELSE [ok |-> FALSE, v |-> Version_new(0, 0, 0)]

\* prefix_mapping with the plural `fixes` forgotten and `doc` matched as a
\* leading part of the token.
prefix_mapping_prefix_match(prefix) ==
    IF \E t \in {S_docs, S_doc, S_style, S_chore, S_test} :
          Len(prefix) >= Len(t) /\ eq_ignore_ascii_case(Take(prefix, Len(t)), t)
    THEN Ignore
    ELSE IF \E t \in {S_tweak, S_tweaks, S_fix, S_perf, S_refactor, S_patch} :
          eq_ignore_ascii_case(prefix, t)
    THEN Patch
    ELSE IF \E t \in {S_feat, S_minor} : eq_ignore_ascii_case(prefix, t)
    THEN Minor
    ELSE IF \E t \in {S_breaking, S_major} : eq_ignore_ascii_case(prefix, t)
    THEN Major
    ELSE None

prefix_mapping(prefix) ==
    IF \E t \in {S_docs, S_doc, S_style, S_chore, S_test} : eq_ignore_ascii_case(prefix, t)
    THEN Ignore
    ELSE IF \E t \in {S_tweak, S_tweaks} : eq_ignore_ascii_case(prefix, t)
    THEN Patch
    ELSE IF \E t \in {S_fix, S_fixes, S_perf, S_refactor, S_patch} : eq_ignore_ascii_case(prefix, t)
    THEN Patch
    ELSE IF \E t \in {S_feat, S_minor} : eq_ignore_ascii_case(prefix, t)
    THEN Minor
    ELSE IF \E t \in {S_breaking, S_major} : eq_ignore_ascii_case(prefix, t)
    THEN Major
    ELSE None

\* RE_SCOPE = ^([^(]+)\([^)]+\):\s+ .  The first group cannot hold a '(', so
\* it is the text before the first '('; the scope cannot hold a ')', so it
\* ends at the first ')' after that; `\s+` is greedy.  The result is
\* [ok, ty |-> group 1, end |-> length of the match]; ok is FALSE for None.
RE_SCOPE_captures(s) ==
    LET i     == IndexOf(s, "(")
        after == Drop(s, i)
        j     == IndexOf(after, ")")
        tail  == Drop(after, j)
    IN  IF /\ i >= 2
           /\ j >= 2
           /\ Len(tail) >= 2
           /\ tail[1] = ":"
           /\ tail[2] \in Whitespace
        THEN [ok |-> TRUE, ty |-> Take(s, i - 1),
              end |-> i + j + 1 + LeadingRun(Drop(tail, 1), Whitespace)]
        ELSE [ok |-> FALSE, ty |-> <<>>, end |-> 0]

\* RE = ^([^:]+):\s+ : the text before the first ':', then whitespace.
RE_captures(s) ==
    LET k    == IndexOf(s, ":")
        tail == Drop(s, k)
    IN  IF k >= 2 /\ Len(tail) >= 1 /\ tail[1] \in Whitespace
        THEN [ok |-> TRUE, ty |-> Take(s, k - 1), end |-> k + LeadingRun(tail, Whitespace)]
        ELSE [ok |-> FALSE, ty |-> <<>>, end |-> 0]

\* Regex::replace(text, ""): the (anchored) match removed.
RE_replace(s, cap) == Drop(s, cap.end)

\* auto_classify(&mut commit): [cat |-> the value returned, commit |-> the
\* commit afterwards].
auto_classify(commit) ==
    LET summary == commit.summary
        scoped  == RE_SCOPE_captures(summary)
        simple  == RE_captures(summary)
    IN  IF is_release_message(summary).ok
        THEN [cat |-> Ignore, commit |-> commit]
        ELSE IF eq_ignore_ascii_case(summary, S_tweak) \/ eq_ignore_ascii_case(summary, S_tweaks)
        THEN [cat |-> Patch, commit |-> commit]
        ELSE IF scoped.ok
        THEN IF prefix_mapping(scoped.ty) # None
             THEN [cat |-> prefix_mapping(scoped.ty),
                   commit |-> [commit EXCEPT !.summary = RE_replace(summary, scoped)]]
             ELSE [cat |-> None, commit |-> commit]
        ELSE IF simple.ok /\ prefix_mapping(simple.ty) # None
        THEN [cat |-> prefix_mapping(simple.ty),
              commit |-> [commit EXCEPT !.summary = RE_replace(summary, simple)]]
        ELSE [cat |-> None, commit |-> commit]


----------------------------------------------------------------------------
(* changelog.rs                                                            *)

\* String constants of changelog.rs
S_zero_version == <<"0", ".", "0", ".", "0">>
S_hdr_link_open == <<"#", "#", " ", "[", "V", "e", "r", "s", "i", "o", "n", " ">>
S_hdr_link_mid == <<"]", "(">>
S_releases_tag == <<"r", "e", "l", "e", "a", "s", "e", "s", "/", "t", "a", "g", "/", "v">>
S_hdr_link_date == <<")", " ", "(">>
S_hdr_close == <<")", "\n">>
S_hdr_plain_open == <<"#", "#", " ", "V", "e", "r", "s", "i", "o", "n", " ">>
S_hdr_plain_date == <<" ", "(">>
S_breaking_changes == <<"B", "r", "e", "a", "k", "i", "n", "g", " ", "c", "h", "a", "n", "g", "e", "s">>
S_new_features == <<"N", "e", "w", " ", "f", "e", "a", "t", "u", "r", "e", "s">>
S_bug_fixes == <<"B", "u", "g", " ", "f", "i", "x", "e", "s">>
S_full_changes_open == <<"\n", "[", ".", ".", ".", "f", "u", "l", "l", " ", "c", "h", "a", "n", "g", "e", "s", "]", "(">>
S_compare == <<"c", "o", "m", "p", "a", "r", "e", "/", "v">>
S_dots_v == <<".", ".", ".", "v">>
S_full_changes_close == <<")", "\n", "\n">>
S_heading_open == <<"\n", "#", "#", "#", " ">>
S_issue_link_open == <<" ", "(", "[", "#">>
S_issues == <<"i", "s", "s", "u", "e", "s", "/">>
S_issue_link_close == <<")", ")">>
S_issue_plain_open == <<" ", "(", "#">>
S_commit_link_open == <<" ", "[">> \o <<Backtick>>
S_commit_link_mid == <<Backtick>> \o <<"]", "(">>
S_commit == <<"c", "o", "m", "m", "i", "t", "/">>
S_commit_plain_open == <<" ">> \o <<Backtick>>
S_bullet == <<"*", " ">>
S_footer == <<"\n", "-", "-", "-", " ", "G", "e", "n", "e", "r", "a", "t", "e", "d", " ", "b", "y", " ", "c", "h", "a", "n", "g", "e", "l", "o", "g", "g", "e", "r", "\n">>

RECURSIVE NatToStr(_)
\* Display of an unsigned integer.
NatToStr(n) ==
    IF n < 10 THEN <<DigitChars[n + 1]>>
    ELSE NatToStr(n \div 10) \o <<DigitChars[(n % 10) + 1]>>

\* impl Display for Version
Version_to_string(v) ==
    NatToStr(v.major) \o <<".">> \o NatToStr(v.minor) \o <<".">> \o NatToStr(v.patch)
        \o (IF v.pre = <<>> THEN <<>> ELSE <<"-">> \o v.pre)

RECURSIVE ZeroPad(_, _)
ZeroPad(s, width) == IF Len(s) >= width THEN s ELSE ZeroPad(<<"0">> \o s, width)

\* NaiveDate::format("%Y-%m-%d")
Date_format(date) ==
    ZeroPad(NatToStr(date.year), 4) \o <<"-">> \o ZeroPad(NatToStr(date.month), 2)
        \o <<"-">> \o ZeroPad(NatToStr(date.day), 2)

\* Length of the run of characters of cs that starts at position p of s.
RunFrom(s, p, cs) == LeadingRun(Drop(s, p - 1), cs)

\* RE_SQUASHED = \s+\(#(\d+)\) matched at position p: [ok, id, end].  The
\* white space must reach the '(' and the digits the ')'.
RE_SQUASHED_at(s, p) ==
    LET w == RunFrom(s, p, Whitespace)
        q == p + w
        d == RunFrom(s, q + 2, Range(DigitChars))
    IN  IF /\ w >= 1
           /\ q + 1 <= Len(s) /\ s[q] = "(" /\ s[q + 1] = "#"
           /\ d >= 1
           /\ q + 2 + d <= Len(s) /\ s[q + 2 + d] = ")"
        THEN [ok |-> TRUE, id |-> SubSeq(s, q + 2, q + 1 + d), start |-> p, end |-> q + 2 + d]
        ELSE [ok |-> FALSE, id |-> <<>>, start |-> 0, end |-> 0]

\* RE_TRAILING = \s+#(\d+)$ matched at position p.
RE_TRAILING_at(s, p) ==
    LET w == RunFrom(s, p, Whitespace)
        q == p + w
        d == RunFrom(s, q + 1, Range(DigitChars))
    IN  IF /\ w >= 1
           /\ q <= Len(s) /\ s[q] = "#"
           /\ d >= 1
           /\ q + d = Len(s)
        THEN [ok |-> TRUE, id |-> SubSeq(s, q + 1, q + d), start |-> p, end |-> q + d]
        ELSE [ok |-> FALSE, id |-> <<>>, start |-> 0, end |-> 0]

\* RE_SQUASHED taking the last match of the text.
RE_SQUASHED_captures_last(s) ==
    LET P == {p \in 1..Len(s) : RE_SQUASHED_at(s, p).ok}
    IN  IF P = {} THEN [ok |-> FALSE, id |-> <<>>, start |-> 0, end |-> 0]
        ELSE RE_SQUASHED_at(s, CHOOSE p \in P : \A r \in P : p >= r)

\* Regex::captures: the leftmost match.
RE_SQUASHED_captures(s) ==
    LET P == {p \in 1..Len(s) : RE_SQUASHED_at(s, p).ok}
    IN  IF P = {} THEN [ok |-> FALSE, id |-> <<>>, start |-> 0, end |-> 0]
        ELSE RE_SQUASHED_at(s, CHOOSE p \in P : \A r \in P : p <= r)

RE_TRAILING_captures(s) ==
    LET P == {p \in 1..Len(s) : RE_TRAILING_at(s, p).ok}
    IN  IF P = {} THEN [ok |-> FALSE, id |-> <<>>, start |-> 0, end |-> 0]
        ELSE RE_TRAILING_at(s, CHOOSE p \in P : \A r \in P : p <= r)

\* Regex::replace(text, ""): the first match cut out.
CutMatch(s, cap) == Take(s, cap.start - 1) \o Drop(s, cap.end)

\* issue_ref that leaves the issue unlinked when there is a remote.
issue_ref_unlinked(remote, hasId, id) ==
    IF hasId THEN S_issue_plain_open \o id \o <<")">> ELSE <<>>

\* Lines 128-134: the issue reference of a bullet.
issue_ref(remote, hasId, id) ==
    IF remote.some /\ hasId
    THEN S_issue_link_open \o id \o S_hdr_link_mid \o remote.base_url
            \o S_issues \o id \o S_issue_link_close
    ELSE IF hasId THEN S_issue_plain_open \o id \o <<")">>
    ELSE <<>>

\* The loop body of format_section: the bullet of one commit.  remote is
\* [some |-> BOOLEAN, base_url |-> the URL].
format_bullet(commit, remote) ==
    LET squashed == RE_SQUASHED_captures(commit.summary)
        title1   == IF squashed.ok THEN CutMatch(commit.summary, squashed) ELSE commit.summary
        trailing == RE_TRAILING_captures(title1)
        useTrail == ~squashed.ok /\ trailing.ok
        title    == IF useTrail THEN CutMatch(title1, trailing) ELSE title1
        hasId    == squashed.ok \/ useTrail
        id       == IF squashed.ok THEN squashed.id ELSE trailing.id
        commit_ref ==
            IF remote.some
            THEN S_commit_link_open \o commit.short_id \o S_commit_link_mid \o remote.base_url
                    \o S_commit \o commit.short_id \o <<")">>
            ELSE S_commit_plain_open \o commit.short_id \o <<Backtick>>
    IN  S_bullet \o title \o <<":">> \o commit_ref \o issue_ref(remote, hasId, id) \o <<"\n">>

RECURSIVE format_bullets_newest_last(_, _)
\* The loop of format_section run over the commits from the last to the first.
format_bullets_newest_last(list, remote) ==
    IF list = <<>> THEN <<>>
    ELSE format_bullets_newest_last(Tail(list), remote) \o format_bullet(Head(list), remote)

RECURSIVE format_bullets(_, _)
format_bullets(list, remote) ==
    IF list = <<>> THEN <<>>
    ELSE format_bullet(Head(list), remote) \o format_bullets(Tail(list), remote)

format_section(heading, list, remote) ==
    S_heading_open \o heading \o <<"\n">> \o format_bullets(list, remote) \o <<"\n">>

\* trailer that gives the link whenever there is a remote.
trailer_without_zero_check(remote, last_str, version_str) ==
    IF remote.some
    THEN S_full_changes_open \o remote.base_url \o S_compare \o last_str
            \o S_dots_v \o version_str \o S_full_changes_close
    ELSE <<"\n">>

\* Lines 69-80: the end of the section.
trailer(remote, last_str, version_str) ==
    IF remote.some /\ last_str # S_zero_version
    THEN S_full_changes_open \o remote.base_url \o S_compare \o last_str
            \o S_dots_v \o version_str \o S_full_changes_close
    ELSE <<"\n">>

build_release_section(new_v, last_v, date, remote, groups) ==
    LET date_str    == Date_format(date)
        version_str == Version_to_string(new_v)
        last_str    == Version_to_string(last_v)
        header ==
            IF remote.some
            THEN S_hdr_link_open \o version_str \o S_hdr_link_mid \o remote.base_url
                    \o S_releases_tag \o version_str \o S_hdr_link_date \o date_str \o S_hdr_close
            ELSE S_hdr_plain_open \o version_str \o S_hdr_plain_date \o date_str \o S_hdr_close
        major ==
            IF Major \in DOMAIN groups
            THEN format_section(S_breaking_changes, groups[Major], remote) ELSE <<>>
        minor ==
            IF Minor \in DOMAIN groups
            THEN format_section(S_new_features, groups[Minor], remote) ELSE <<>>
        patch ==
            IF Patch \in DOMAIN groups
            THEN format_section(S_bug_fixes, groups[Patch], remote) ELSE <<>>
    IN  header \o major \o minor \o patch \o trailer(remote, last_str, version_str)

\* str::trim(): leading and trailing white space removed.
RECURSIVE trim_end(_)
trim_end(s) ==
    IF s # <<>> /\ s[Len(s)] \in Whitespace THEN trim_end(Take(s, Len(s) - 1)) ELSE s

trim(s) == trim_end(Drop(s, LeadingRun(s, Whitespace)))

\* A file of the file system: [exists |-> BOOLEAN, content |-> its text].
NoFile == [exists |-> FALSE, content |-> <<>>]

File(content) == [exists |-> TRUE, content |-> content]

\* write_changelog that tests existing.is_empty() without trimming it.
write_changelog_untrimmed(f, new_section, io) ==
    LET existing == IF f.exists THEN f.content ELSE <<>>
        content  == IF existing = <<>>
                    THEN new_section \o S_footer
                    ELSE new_section \o <<"\n", "\n">> \o existing
    IN  IF f.exists /\ io = "read_error" THEN [ok |-> FALSE, file |-> f]
        ELSE IF io = "open_error" THEN [ok |-> FALSE, file |-> f]
        ELSE IF io = "write_error" THEN [ok |-> FALSE, file |-> File(<<>>)]
        ELSE [ok |-> TRUE, file |-> File(content)]

\* write_changelog that ends every content it writes with the footer.
write_changelog_footer_always(f, new_section, io) ==
    LET existing == IF f.exists THEN f.content ELSE <<>>
        content  == IF trim(existing) = <<>>
                    THEN new_section \o S_footer
                    ELSE new_section \o <<"\n", "\n">> \o existing \o S_footer
    IN  IF f.exists /\ io = "read_error" THEN [ok |-> FALSE, file |-> f]
        ELSE IF io = "open_error" THEN [ok |-> FALSE, file |-> f]
        ELSE IF io = "write_error" THEN [ok |-> FALSE, file |-> File(<<>>)]
        ELSE [ok |-> TRUE, file |-> File(content)]

\* write_changelog(path, new_section) on file f.  io is what the file system
\* does: "ok", "read_error" (read_to_string fails), "open_error" (fs::write
\* fails before touching the file) or "write_error" (fs::write fails after
\* truncating it).  The result is [ok |-> Ok or Err, file |-> the file afterwards].
write_changelog(f, new_section, io) ==
    LET existing == IF f.exists THEN f.content ELSE <<>>
        content  == IF trim(existing) = <<>>
                    THEN new_section \o S_footer
                    ELSE new_section \o <<"\n", "\n">> \o existing
    IN  IF f.exists /\ io = "read_error" THEN [ok |-> FALSE, file |-> f]
        ELSE IF io = "open_error" THEN [ok |-> FALSE, file |-> f]
        ELSE IF io = "write_error" THEN [ok |-> FALSE, file |-> File(<<>>)]
        ELSE [ok |-> TRUE, file |-> File(content)]

----------------------------------------------------------------------------
(* git.rs                                                                  *)

S_git_at == <<"g", "i", "t", "@">>
S_https == <<"h", "t", "t", "p", "s", ":", "/", "/">>
S_dot_git == <<".", "g", "i", "t">>

\* Whether s ends with the text suffix.
ends_with(s, suffix) ==
    Len(s) >= Len(suffix) /\ SubSeq(s, Len(s) - Len(suffix) + 1, Len(s)) = suffix

RECURSIVE trim_end_matches(_, _)
\* str::trim_end_matches(pat): the suffix pat is removed as often as it is there.
trim_end_matches(s, pat) ==
    IF pat # <<>> /\ ends_with(s, pat)
    THEN trim_end_matches(SubSeq(s, 1, Len(s) - Len(pat)), pat)
    ELSE s

\* Option<RemoteInfo>: Some(RemoteInfo { base_url })
RemoteInfo(base_url) == [some |-> TRUE, base_url |-> base_url]

\* with_slash that leaves the text as it is.
with_slash_as_is(without_git) == without_git

\* Lines 190-194
with_slash(without_git) ==
    IF ends_with(without_git, <<"/">>) THEN without_git ELSE without_git \o <<"/">>

\* parse_remote_url(url)
parse_remote_url(url) ==
    IF StartsWith(url, S_git_at)
    THEN LET i == IndexOf(url, ":")
         IN  IF i # 0
             THEN LET host_part == Take(url, i - 1)
                      path_part == Drop(url, i)
                      host      == IF StartsWith(host_part, S_git_at)
                                   THEN Drop(host_part, Len(S_git_at)) ELSE host_part
                      path      == trim_end_matches(trim_end_matches(path_part, <<"/">>), S_dot_git)
                  IN  RemoteInfo(S_https \o host \o <<"/">> \o path \o <<"/">>)
             ELSE [some |-> FALSE, base_url |-> <<>>]
    ELSE IF StartsWith(url, S_https)
    THEN RemoteInfo(with_slash(trim_end_matches(url, S_dot_git)))
    ELSE [some |-> FALSE, base_url |-> <<>>]

----------------------------------------------------------------------------
(* The parts of the state a specification does not use stay as they are.   *)

NoVersion == Version_new(0, 0, 0)

NoSection == [some |-> FALSE, text |-> <<>>]

NoArg == [some |-> FALSE, text |-> <<>>]

\* Option<RemoteInfo>: None
NoRemote == [some |-> FALSE, base_url |-> <<>>]

NoDate == [year |-> 0, month |-> 1, day |-> 1]

\* No prompt was shown for the commit.
NotAsked == [asked |-> FALSE, ok |-> FALSE, index |-> 0]

ClassifyIdle ==
    /\ c_mode = "idle" /\ c_pc = "idle"
    /\ c_in = NoCommit /\ c_out = NoCommit /\ c_cat = None
    /\ p_in = <<>> /\ p_out = None

VersionIdle ==
    v_pc = "idle" /\ v_last = NoVersion /\ v_keys = {} /\ v_new = NoVersion

WriteIdle ==
    /\ w_file = NoFile /\ w_prev = NoFile /\ w_section = <<>>
    /\ w_result = "none" /\ w_calls = 0
    /\ w_first = NoFile /\ w_log = <<>>

MainIdle ==
    /\ pc = "idle" /\ error = None
    /\ cli = [new_version |-> NoArg, dry_run |-> FALSE, non_interactive |-> FALSE]
    /\ file = NoFile /\ file_before = NoFile
    /\ last_version = NoVersion /\ commits = <<>> /\ classified = <<>>
    /\ grouped = <<>> /\ new_version = NoVersion /\ section = NoSection
    /\ answers = <<>> /\ writes = 0

RenderIdle ==
    /\ r_pc = "idle" /\ r_out = <<>>
    /\ r_in = [new_v |-> NoVersion, last_v |-> NoVersion, date |-> NoDate,
               remote |-> NoRemote, groups |-> <<>>]

UrlIdle == u_pc = "idle" /\ u_in = <<>> /\ u_out = NoRemote

----------------------------------------------------------------------------
(* One call of auto_classify, or of prefix_mapping, on a bounded input.    *)

\* Summaries are built from at most MaxFrags of these pieces.
MaxFrags == 3

Frags == {
    S_fix, <<"F", "e", "a", "t">>, S_docs, S_major, S_tweak,
    <<"T", "w", "e", "a", "k", "s">>, <<"w", "i", "p">>, <<"s">>, <<"x">>,
    <<":", " ">>, <<":">>, <<" ">>, <<"\t">>,
    <<"(", "x", ")", ":", " ">>, <<"(">>, <<")">>,
    S_arrow, <<"-", ">", " ", "v">>, <<"v">>,
    <<"1", ".", "2", ".", "3">>, <<"1", ".", "2">> }

S_short_id == <<"a", "b", "c", "1", "2", "3", "4">>

SummaryInputs == { Concat(fs) : fs \in UNION { [1..n -> Frags] : n \in 0..MaxFrags } }

TableTokens == {S_docs, S_doc, S_style, S_chore, S_test, S_tweak, S_tweaks, S_fix,
                S_fixes, S_perf, S_refactor, S_patch, S_feat, S_minor, S_breaking, S_major}

ToAsciiUpper(c) ==
    IF c \in Range(LowerChars)
    THEN UpperChars[CHOOSE i \in DOMAIN LowerChars : LowerChars[i] = c]
    ELSE c

\* Each listed token as written, in upper case, capitalised, and its near
\* misses: with whitespace around it, a letter more, a letter less.
TokenVariants(t) ==
    { t,
      [i \in 1..Len(t) |-> ToAsciiUpper(t[i])],
      [i \in 1..Len(t) |-> IF i = 1 THEN ToAsciiUpper(t[i]) ELSE t[i]],
      t \o <<" ">>, <<" ">> \o t, t \o <<"s">>, <<"x">> \o t, Take(t, Len(t) - 1) }

PrefixInputs == UNION { TokenVariants(t) : t \in TableTokens } \cup {<<>>, <<"w", "i", "p">>}

ClassifyInit ==
    /\ VersionIdle /\ WriteIdle /\ MainIdle /\ RenderIdle /\ UrlIdle
    /\ \/ /\ c_mode = "classify"
          /\ c_in \in { CommitInfo(1, S_short_id, sm, <<"b">>) : sm \in SummaryInputs }
          /\ p_in = <<>>
       \/ /\ c_mode = "prefix"
          /\ c_in = NoCommit
          /\ p_in \in PrefixInputs
    /\ c_pc = "input"
    /\ c_out = c_in
    /\ c_cat = None
    /\ p_out = None

AutoClassifyCall ==
    /\ c_mode = "classify"
    /\ c_pc = "input"
    /\ LET r == auto_classify(c_in)
       IN  /\ c_cat' = r.cat
           /\ c_out' = r.commit
    /\ c_pc' = "done"
    /\ UNCHANGED <<c_mode, c_in, p_in, p_out, verVars, wrVars, mainVars, rndVars, urlVars>>

PrefixMappingCall ==
    /\ c_mode = "prefix"
    /\ c_pc = "input"
    /\ p_out' = prefix_mapping(p_in)
    /\ c_pc' = "done"
    /\ UNCHANGED <<c_mode, c_in, c_out, c_cat, p_in, verVars, wrVars, mainVars, rndVars, urlVars>>

ClassifyNext == AutoClassifyCall \/ PrefixMappingCall

SpecClassify == ClassifyInit /\ [][ClassifyNext]_vars


----------------------------------------------------------------------------
(* main.rs                                                                 *)

\* The error messages of main.
E_repo == "Could not open git repository"
E_tag_missing == "Could not find tag"
E_tag_semver == "Tag does not look like a semver version"
E_walk == "commits_since failed"
E_no_commits == "No commits found since starting point"
E_nothing == "No important commits found, nothing to put into changelog"
E_version_invalid == "Provided version is not valid semver"
E_version_small == "New version must be greater than previous version"
E_io == "write_changelog failed"
E_overflow == "attempt to add with overflow"

\* classified = commits.into_iter().map(auto_classify).collect()
classify_all(list) ==
    [i \in 1..Len(list) |->
        LET r == auto_classify(list[i]) IN [commit |-> r.commit, cat |-> r.cat]]

ITEMS == <<"patch", "minor", "major", "ignore">>

\* The category of the item the prompt returned (index from 0).
selected(choice) ==
    IF ITEMS[choice + 1] = "patch" THEN Patch
    ELSE IF ITEMS[choice + 1] = "minor" THEN Minor
    ELSE IF ITEMS[choice + 1] = "major" THEN Major
    ELSE Ignore

\* What Select::interact() can return: Ok(index of an item) or Err(_).
Interact == { [asked |-> TRUE, ok |-> TRUE, index |-> n] : n \in 0..3 }
                \cup { [asked |-> TRUE, ok |-> FALSE, index |-> 0] }

\* .unwrap_or(0)
unwrap_or_0(answer) == IF answer.ok THEN answer.index ELSE 0

\* resolve_all that takes the answer of the prompt for every commit.
resolve_all_overriding(cl, non_interactive, choice) ==
    [i \in 1..Len(cl) |->
        IF ~non_interactive THEN [cl[i] EXCEPT !.cat = selected(choice[i])]
        ELSE IF cl[i].cat # None THEN cl[i]
        ELSE [cl[i] EXCEPT !.cat = Patch]]

\* The two loops of lines 114-153.  choice[i] is the index that the prompt
\* for the i-th commit gives after unwrap_or(0).
resolve_all(cl, non_interactive, choice) ==
    [i \in 1..Len(cl) |->
        IF cl[i].cat # None THEN cl[i]
        ELSE IF ~non_interactive THEN [cl[i] EXCEPT !.cat = selected(choice[i])]
        ELSE [cl[i] EXCEPT !.cat = Patch]]

\* grouped_push that puts the commit in front of its category's list.
grouped_push_front(g, cat, commit) ==
    IF cat \in DOMAIN g THEN [g EXCEPT ![cat] = <<commit>> \o @]
    ELSE (cat :> <<commit>>) @@ g

\* grouped.entry(cat).or_default().push(commit)
grouped_push(g, cat, commit) ==
    IF cat \in DOMAIN g THEN [g EXCEPT ![cat] = Append(@, commit)]
    ELSE (cat :> <<commit>>) @@ g

RECURSIVE group_from(_, _)
\* The loop of lines 156-163 over the rest cl of classified.
group_from(g, cl) ==
    IF cl = <<>> THEN g
    ELSE LET e == Head(cl)
         IN  IF e.cat = None \/ e.cat = Ignore
             THEN group_from(g, Tail(cl))
             ELSE group_from(grouped_push(g, e.cat, e.commit), Tail(cl))

group_commits(cl) == group_from(<<>>, cl)

\* Line 175 read as the tags are read: a leading `v` is trimmed first.
explicit_version_trimming_v(text) == Version_parse(trim_start_matches(text, "v"))

\* Line 175: Version::parse(&v)
explicit_version(text) == Version_parse(text)

\* Line 177: parsed <= last_version
version_not_greater(parsed, last_v) == Version_le(parsed, last_v)

\* x + 1 on a u64: with overflow checks (the debug profile) the overflow
\* panics, without them (the release profile) it wraps around to 0.
add_one(x, overflow_checks) ==
    IF x < U64_MAX THEN [ok |-> TRUE, n |-> x + 1]
    ELSE IF overflow_checks THEN [ok |-> FALSE, n |-> x]
    ELSE [ok |-> TRUE, n |-> 0]

\* Line 186: let unstable = last_version < Version::new(1, 0, 0)
unstable_flag(last_v) == Version_lt(last_v, Version_new(1, 0, 0))

\* Lines 186-212: the version computed from the keys of grouped;
\* [ok |-> FALSE] stands for the panic of an overflowing `+ 1`.
next_version(last_v, g, overflow_checks) ==
    LET unstable  == unstable_flag(last_v)
        has_major == Major \in DOMAIN g
        has_minor == Minor \in DOMAIN g
        major1    == add_one(last_v.major, overflow_checks)
        minor1    == add_one(last_v.minor, overflow_checks)
        patch1    == add_one(last_v.patch, overflow_checks)
    IN  IF has_major
        THEN IF unstable
             THEN [ok |-> minor1.ok, v |-> Version_new(last_v.major, minor1.n, 0)]
             ELSE [ok |-> major1.ok, v |-> Version_new(major1.n, 0, 0)]
        ELSE IF has_minor
        THEN IF unstable
             THEN [ok |-> patch1.ok, v |-> Version_new(last_v.major, last_v.minor, patch1.n)]
             ELSE [ok |-> minor1.ok, v |-> Version_new(last_v.major, minor1.n, 0)]
        ELSE [ok |-> patch1.ok, v |-> Version_new(last_v.major, last_v.minor, patch1.n)]

----------------------------------------------------------------------------
(* One run of main.                                                        *)

\* At most MaxCommits commits since the starting point.
MaxCommits == 2

\* Names of tags, as --from-tag gives them or the repository holds them.
TagNames == {
    <<"v", "0", ".", "3", ".", "1">>,
    <<"v", "1", ".", "0", ".", "0", "-", "r", "c", ".", "1">>,
    <<"v", "1", ".", "0", ".", "0">>,
    <<"v", "2", ".", "1", ".", "4">>,
    <<"v", "0", ".", "3", ".">> \o NatToStr(U64_MAX),
    <<"v", "1", ".", "0">> }

\* Values of --new-version.
NewVersionArgs == {
    NoArg,
    [some |-> TRUE, text |-> <<"1", ".", "0">>],
    [some |-> TRUE, text |-> <<"v", "2", ".", "0", ".", "0">>],
    [some |-> TRUE, text |-> <<"1", ".", "0", ".", "0">>],
    [some |-> TRUE, text |-> <<"3", ".", "0", ".", "0", "-", "r", "c", ".", "1">>] }

\* Summaries of commits.
SummaryPool == {
    <<"b", "r", "e", "a", "k", "i", "n", "g", ":", " ", "a">>,
    <<"f", "e", "a", "t", "(", "x", ")", ":", " ", "b", " ", "(", "#", "7", ")">>,
    <<"d", "o", "c", "s", ":", " ", "c">>,
    <<"f", "i", "x", ":", " ", "d", " ", "#", "8">>,
    <<"w", "i", "p">> }

\* The i-th commit of the walk (newest first): its oid and short id are its own.
PoolCommit(i, summary) == CommitInfo(i, <<"c">> \o NatToStr(i), summary, <<>>)

CommitLists ==
    { [i \in DOMAIN f |-> PoolCommit(i, f[i])] :
        f \in UNION { [1..n -> SummaryPool] : n \in 0..MaxCommits } }

Remotes == {
    [some |-> FALSE, base_url |-> <<>>],
    [some |-> TRUE, base_url |-> <<"h", "t", "t", "p", "s", ":", "/", "/", "h", "/", "o", "/", "r", "/">>] }

Dates == { [year |-> 2024, month |-> 1, day |-> 15] }

Init ==
    /\ ClassifyIdle /\ VersionIdle /\ WriteIdle /\ RenderIdle /\ UrlIdle
    /\ pc = "start"
    /\ error = None
    /\ cli \in [new_version : NewVersionArgs, dry_run : BOOLEAN, non_interactive : BOOLEAN]
    /\ file \in {NoFile, File(<<"#", "#", " ", "O", "l", "d", "\n">>)}
    /\ file_before = file
    /\ last_version = NoVersion
    /\ commits = <<>>
    /\ classified = <<>>
    /\ grouped = <<>>
    /\ new_version = NoVersion
    /\ section = NoSection
    /\ answers = <<>>
    /\ writes = 0

\* return Err(..): the run is over.
Fail(e) == pc' = "failed" /\ error' = e

\* Lines 72-99: the repository is opened and last_version comes from
\* --from-tag, from the latest tag that parses, or is 0.0.0.
ResolveLastVersion ==
    /\ pc = "start"
    /\ \/ /\ Fail(E_repo)
          /\ UNCHANGED last_version
       \/ /\ Fail(E_tag_missing)
          /\ UNCHANGED last_version
       \/ \E tag \in TagNames :
             LET parsed == Version_parse(trim_start_matches(tag, "v"))
             IN  IF parsed.ok
                 THEN pc' = "commits" /\ last_version' = parsed.v /\ UNCHANGED error
                 ELSE Fail(E_tag_semver) /\ UNCHANGED last_version
       \/ \E tag \in {t \in TagNames : Version_parse(trim_start_matches(t, "v")).ok} :
             /\ pc' = "commits"
             /\ last_version' = Version_parse(trim_start_matches(tag, "v")).v
             /\ UNCHANGED error
       \/ /\ pc' = "commits"
          /\ last_version' = Version_parse(S_zero_version).v
          /\ UNCHANGED error
    /\ UNCHANGED <<cli, file, file_before, commits, classified, grouped, new_version, section, answers, writes>>
    /\ UNCHANGED <<clsVars, verVars, wrVars, rndVars, urlVars>>

\* Lines 101-104
CommitsSince ==
    /\ pc = "commits"
    /\ \/ /\ Fail(E_walk)
          /\ UNCHANGED commits
       \/ \E list \in CommitLists :
             /\ commits' = list
             /\ IF list = <<>> THEN Fail(E_no_commits)
                ELSE pc' = "classify" /\ UNCHANGED error
    /\ UNCHANGED <<cli, file, file_before, last_version, classified, grouped, new_version, section, answers, writes>>
    /\ UNCHANGED <<clsVars, verVars, wrVars, rndVars, urlVars>>

\* Lines 106-112
ClassifyCommits ==
    /\ pc = "classify"
    /\ classified' = classify_all(commits)
    /\ pc' = "resolve"
    /\ UNCHANGED <<error, cli, file, file_before, last_version, commits, grouped, new_version, section, answers, writes>>
    /\ UNCHANGED <<clsVars, verVars, wrVars, rndVars, urlVars>>

\* Lines 114-153
ResolveUnclassified ==
    /\ pc = "resolve"
    /\ \E answer \in [1..Len(classified) -> Interact \cup {NotAsked}] :
          /\ \A i \in 1..Len(classified) :
                answer[i] = NotAsked <=> (cli.non_interactive \/ classified[i].cat # None)
          /\ classified' = resolve_all(classified, cli.non_interactive,
                                       [i \in 1..Len(classified) |-> unwrap_or_0(answer[i])])
          /\ answers' = answer
    /\ pc' = "group"
    /\ UNCHANGED <<error, cli, file, file_before, last_version, commits, grouped, new_version, section, writes>>
    /\ UNCHANGED <<clsVars, verVars, wrVars, rndVars, urlVars>>

\* Lines 155-163
GroupCommits ==
    /\ pc = "group"
    /\ grouped' = group_commits(classified)
    /\ pc' = "check"
    /\ UNCHANGED <<error, cli, file, file_before, last_version, commits, classified, new_version, section, answers, writes>>
    /\ UNCHANGED <<clsVars, verVars, wrVars, rndVars, urlVars>>

\* Lines 165-172 left out: the run goes on whatever grouped holds.
CheckImportant_left_out ==
    /\ pc = "check"
    /\ pc' = "version"
    /\ UNCHANGED <<error, cli, file, file_before, last_version, commits, classified, grouped, new_version, section, answers, writes>>
    /\ UNCHANGED <<clsVars, verVars, wrVars, rndVars, urlVars>>

\* Lines 165-172
CheckImportant ==
    /\ pc = "check"
    /\ IF Major \notin DOMAIN grouped /\ Minor \notin DOMAIN grouped /\ Patch \notin DOMAIN grouped
       THEN Fail(E_nothing)
       ELSE pc' = "version" /\ UNCHANGED error
    /\ UNCHANGED <<cli, file, file_before, last_version, commits, classified, grouped, new_version, section, answers, writes>>
    /\ UNCHANGED <<clsVars, verVars, wrVars, rndVars, urlVars>>

\* Lines 174-213
DecideVersion ==
    /\ pc = "version"
    /\ IF cli.new_version.some
       THEN LET parsed == explicit_version(cli.new_version.text)
            IN  IF ~parsed.ok
                THEN Fail(E_version_invalid) /\ UNCHANGED new_version
                ELSE IF version_not_greater(parsed.v, last_version)
                THEN Fail(E_version_small) /\ UNCHANGED new_version
                ELSE new_version' = parsed.v /\ pc' = "render" /\ UNCHANGED error
       ELSE \E overflow_checks \in BOOLEAN :
              LET r == next_version(last_version, grouped, overflow_checks)
              IN  IF r.ok
                  THEN new_version' = r.v /\ pc' = "render" /\ UNCHANGED error
                  ELSE Fail(E_overflow) /\ UNCHANGED new_version
    /\ UNCHANGED <<cli, file, file_before, last_version, commits, classified, grouped, section, answers, writes>>
    /\ UNCHANGED <<clsVars, verVars, wrVars, rndVars, urlVars>>

\* Lines 222-231
RenderSection ==
    /\ pc = "render"
    /\ \E remote \in Remotes : \E today \in Dates :
          section' = [some |-> TRUE,
                      text |-> build_release_section(new_version, last_version, today,
                                                     remote, grouped)]
    /\ pc' = "output"
    /\ UNCHANGED <<error, cli, file, file_before, last_version, commits, classified, grouped, new_version, answers, writes>>
    /\ UNCHANGED <<clsVars, verVars, wrVars, rndVars, urlVars>>

\* Lines 233-240
Output ==
    /\ pc = "output"
    /\ IF cli.dry_run
       THEN pc' = "done" /\ UNCHANGED <<file, error, writes>>
       ELSE \E io \in {"ok", "read_error", "open_error", "write_error"} :
              LET r == write_changelog(file, section.text, io)
              IN  /\ file' = r.file
                  /\ writes' = IF file.exists /\ io = "read_error" THEN writes ELSE writes + 1
                  /\ IF r.ok THEN pc' = "done" /\ UNCHANGED error ELSE Fail(E_io)
    /\ UNCHANGED <<cli, file_before, last_version, commits, classified, grouped, new_version, section, answers>>
    /\ UNCHANGED <<clsVars, verVars, wrVars, rndVars, urlVars>>

Next ==
    \/ ResolveLastVersion
    \/ CommitsSince
    \/ ClassifyCommits
    \/ ResolveUnclassified
    \/ GroupCommits
    \/ CheckImportant
    \/ DecideVersion
    \/ RenderSection
    \/ Output

Spec == Init /\ [][Next]_vars

----------------------------------------------------------------------------
(* The version policy on its own: every last_version a tag can give, with *)
(* and without a pre-release, and every non-empty set of keys of grouped    *)
(* that passes the check of lines 165-172.                                  *)

PreInputs == { <<>>, <<"r", "c", ".", "1">> }

VersionInputs ==
    { [major |-> a, minor |-> b, patch |-> c, pre |-> pr] :
        a \in 0..U64_MAX, b \in 0..U64_MAX, c \in 0..U64_MAX, pr \in PreInputs }

\* A grouped mapping with exactly these keys, one commit each.
GroupedWithKeys(keys) == [k \in keys |-> <<PoolCommit(1, <<"x">>)>>]

VersionInit ==
    /\ ClassifyIdle /\ WriteIdle /\ MainIdle /\ RenderIdle /\ UrlIdle
    /\ v_pc = "input"
    /\ v_last \in VersionInputs
    /\ v_keys \in (SUBSET {Major, Minor, Patch}) \ {{}}
    /\ v_new = NoVersion

ComputeNextVersion ==
    /\ v_pc = "input"
    /\ \E overflow_checks \in BOOLEAN :
          LET r == next_version(v_last, GroupedWithKeys(v_keys), overflow_checks)
          IN  IF r.ok
              THEN v_new' = r.v /\ v_pc' = "done"
              ELSE v_new' = v_new /\ v_pc' = "panicked"
    /\ UNCHANGED <<v_last, v_keys, clsVars, wrVars, mainVars, rndVars, urlVars>>

VersionNext == ComputeNextVersion

SpecVersion == VersionInit /\ [][VersionNext]_vars

----------------------------------------------------------------------------
(* Calls of write_changelog on one path.                                   *)

\* The file holds at most MaxFileFrags pieces before the first call, and
\* write_changelog is called at most MaxWrites times.
MaxFileFrags == 2

MaxWrites == 3

FileFrags == { <<" ">>, <<"\n">>, <<"\t">>, <<"#", " ", "O", "l", "d", "\n">> }

FileInputs ==
    {NoFile} \cup
    { File(Concat(fs)) : fs \in UNION { [1..n -> FileFrags] : n \in 0..MaxFileFrags } }

SectionInputs == { <<"#", "#", " ", "A", "\n", "\n">>, <<"#", "#", " ", "B", "\n">> }

WriteInit ==
    /\ ClassifyIdle /\ VersionIdle /\ MainIdle /\ RenderIdle /\ UrlIdle
    /\ w_file \in FileInputs
    /\ w_prev = w_file
    /\ w_section = <<>>
    /\ w_result = "none"
    /\ w_calls = 0
    /\ w_first = w_file
    /\ w_log = <<>>

WriteChangelogCall ==
    /\ w_calls < MaxWrites
    /\ \E new_section \in SectionInputs :
       \E io \in {"ok", "read_error", "open_error", "write_error"} :
          LET r == write_changelog(w_file, new_section, io)
          IN  /\ (io = "read_error" => w_file.exists)
              /\ w_prev' = w_file
              /\ w_section' = new_section
              /\ w_file' = r.file
              /\ w_result' = IF r.ok THEN "Ok" ELSE "Err"
              /\ w_log' = Append(w_log, [section |-> new_section, ok |-> r.ok])
    /\ w_calls' = w_calls + 1
    /\ UNCHANGED w_first
    /\ UNCHANGED <<clsVars, verVars, mainVars, rndVars, urlVars>>

WriteNext == WriteChangelogCall

SpecWrite == WriteInit /\ [][WriteNext]_vars

----------------------------------------------------------------------------
(* One call of build_release_section.                                      *)

\* Each category holds at most MaxGroupLen commits.
MaxGroupLen == 2

\* (last_version, new_version) as main hands them over: no previous tag, a
\* pre-release tag of 0.0.0, an ordinary tag.
RenderVersions == {
    [last_v |-> Version_new(0, 0, 0), new_v |-> Version_new(0, 0, 1)],
    [last_v |-> [Version_new(0, 0, 0) EXCEPT !.pre = <<"r", "c", ".", "1">>],
     new_v |-> Version_new(0, 0, 1)],
    [last_v |-> Version_new(1, 2, 3), new_v |-> Version_new(2, 0, 0)] }

\* Summaries as they are after auto_classify.
RenderSummaries == { <<"a">>, <<"b", " ", "(", "#", "7", ")">> }

CategoryIndex(k) == IF k = Major THEN 1 ELSE IF k = Minor THEN 2 ELSE 3

\* The lists a category can hold: 1..MaxGroupLen commits, each with a short
\* id of its own.
GroupLists(k) ==
    { [i \in DOMAIN f |-> PoolCommit(10 * CategoryIndex(k) + i, f[i])] :
        f \in UNION { [1..n -> RenderSummaries] : n \in 1..MaxGroupLen } }

\* grouped as line 165 lets it through: some of Major, Minor, Patch as keys,
\* no empty list.
GroupedInputs ==
    UNION { { g \in [keys -> UNION { GroupLists(k) : k \in keys }] :
                \A k \in keys : g[k] \in GroupLists(k) } :
            keys \in (SUBSET {Major, Minor, Patch}) \ {{}} }

RenderInit ==
    /\ ClassifyIdle /\ VersionIdle /\ WriteIdle /\ MainIdle /\ UrlIdle
    /\ r_pc = "input"
    /\ \E vs \in RenderVersions : \E remote \in Remotes : \E date \in Dates :
       \E g \in GroupedInputs :
          r_in = [new_v |-> vs.new_v, last_v |-> vs.last_v, date |-> date,
                  remote |-> remote, groups |-> g]
    /\ r_out = <<>>

BuildReleaseSectionCall ==
    /\ r_pc = "input"
    /\ r_out' = build_release_section(r_in.new_v, r_in.last_v, r_in.date, r_in.remote,
                                      r_in.groups)
    /\ r_pc' = "done"
    /\ UNCHANGED <<r_in, clsVars, verVars, wrVars, mainVars, urlVars>>

RenderNext == BuildReleaseSectionCall

SpecRender == RenderInit /\ [][RenderNext]_vars

----------------------------------------------------------------------------
(* One call of build_release_section for one commit, whose summary is made *)
(* of at most MaxIssueFrags pieces.                                        *)

MaxIssueFrags == 3

IssueFrags == {
    <<"a">>, <<" ">>, <<"\t">>, <<"(", "#", "7", ")">>, <<"#", "8">>,
    <<" ", "(", "#", "1", "2", ")">>, <<"(", "#", "x", ")">>, <<"#">> }

IssueSummaries ==
    { Concat(fs) : fs \in UNION { [1..n -> IssueFrags] : n \in 0..MaxIssueFrags } }

BulletInit ==
    /\ ClassifyIdle /\ VersionIdle /\ WriteIdle /\ MainIdle /\ UrlIdle
    /\ r_pc = "input"
    /\ \E remote \in Remotes : \E date \in Dates : \E sm \in IssueSummaries :
          r_in = [new_v |-> Version_new(1, 2, 4), last_v |-> Version_new(1, 2, 3),
                  date |-> date, remote |-> remote,
                  groups |-> (Patch :> <<CommitInfo(1, S_short_id, sm, <<>>)>>)]
    /\ r_out = <<>>

SpecBullet == BulletInit /\ [][RenderNext]_vars

----------------------------------------------------------------------------
(* One call of parse_remote_url.  The url is a scheme, a host, a separator, *)
(* a path and at most MaxUrlTail endings; any part may be missing.          *)

MaxUrlTail == 2

UrlSchemes == { S_git_at, S_https, <<"h", "t", "t", "p", ":", "/", "/">>, <<>> }

UrlHosts == { <<"h">>, <<"h", ".", "i", "o">>, <<>> }

UrlSeparators == { <<":">>, <<"/">>, <<>> }

UrlPaths == { <<"o", "/", "r">>, <<"o">>, <<>> }

UrlTails ==
    { Concat(fs) : fs \in UNION { [1..n -> {S_dot_git, <<"/">>}] : n \in 0..MaxUrlTail } }

UrlInputs ==
    { sc \o h \o sp \o pa \o t :
        sc \in UrlSchemes, h \in UrlHosts, sp \in UrlSeparators, pa \in UrlPaths, t \in UrlTails }

UrlInit ==
    /\ ClassifyIdle /\ VersionIdle /\ WriteIdle /\ MainIdle /\ RenderIdle
    /\ u_pc = "input"
    /\ u_in \in UrlInputs
    /\ u_out = NoRemote

ParseRemoteUrlCall ==
    /\ u_pc = "input"
    /\ u_out' = parse_remote_url(u_in)
    /\ u_pc' = "done"
    /\ UNCHANGED <<u_in, clsVars, verVars, wrVars, mainVars, rndVars>>

UrlNext == ParseRemoteUrlCall

SpecUrl == UrlInit /\ [][UrlNext]_vars

----------------------------------------------------------------------------
(* Properties of the classifier (SpecClassify)                             *)

ClassifyDone == c_mode = "classify" /\ c_pc = "done"

PrefixDone == c_mode = "prefix" /\ c_pc = "done"

LowerStr(s) == [i \in 1..Len(s) |-> ToAsciiLower(s[i])]

\* The prefix table of the specification, on the lower-cased token.
TableCategory(t) ==
    LET l == LowerStr(t)
    IN  IF l \in {S_docs, S_doc, S_style, S_chore, S_test} THEN Ignore
        ELSE IF l \in {S_tweak, S_tweaks, S_fix, S_fixes, S_perf, S_refactor, S_patch} THEN Patch
        ELSE IF l \in {S_feat, S_minor} THEN Minor
        ELSE IF l \in {S_breaking, S_major} THEN Major
        ELSE None

\* s[a..e] is the whole run of separating whitespace that starts at a.
SeparatorRun(s, a, e) ==
    /\ a <= e /\ e <= Len(s)
    /\ \A x \in a..e : s[x] \in Whitespace
    /\ (e < Len(s) => s[e + 1] \notin Whitespace)

\* The summary reads `type: rest`, the type ending before position k and the
\* rest starting after position e.
SimpleForm(s, k, e) ==
    /\ k >= 2 /\ k <= Len(s)
    /\ \A x \in 1..(k - 1) : s[x] \notin {":", "(", ")"}
    /\ s[k] = ":"
    /\ SeparatorRun(s, k + 1, e)

\* The summary reads `type(scope): rest`, the type ending before position i,
\* the scope closed at position j and the rest starting after position e.
ScopedForm(s, i, j, e) ==
    /\ i >= 2 /\ i <= Len(s)
    /\ \A x \in 1..(i - 1) : s[x] \notin {":", "(", ")"}
    /\ s[i] = "("
    /\ j > i + 1 /\ j < Len(s)
    /\ \A x \in (i + 1)..(j - 1) : s[x] # ")"
    /\ s[j] = ")"
    /\ s[j + 1] = ":"
    /\ SeparatorRun(s, j + 2, e)

\* `-> `, at most one `v`, then a valid semantic version.
ReleaseMarkerText(s) ==
    /\ StartsWith(s, S_arrow)
    /\ \/ Version_parse(Drop(s, 3)).ok
       \/ Len(s) > 3 /\ s[4] = "v" /\ Version_parse(Drop(s, 4)).ok

BareTweak(s) == LowerStr(s) \in {S_tweak, S_tweaks}

\* C4: a summary `type: rest` or `type(scope): rest` with a recognized type
\* (not a release marker, not a bare tweak keyword) is classified as the
\* table says for `type`, and the summary becomes exactly `rest`.
C4_RecognizedPrefixStripped ==
    ClassifyDone =>
        LET s == c_in.summary
        IN  (~ReleaseMarkerText(s) /\ ~BareTweak(s)) =>
              /\ \A k \in 1..Len(s) : \A e \in (k + 1)..Len(s) :
                    (SimpleForm(s, k, e) /\ TableCategory(Take(s, k - 1)) # None) =>
                        /\ c_cat = TableCategory(Take(s, k - 1))
                        /\ c_out.summary = Drop(s, e)
              /\ \A i \in 1..Len(s) : \A j \in (i + 2)..Len(s) : \A e \in (j + 2)..Len(s) :
                    (ScopedForm(s, i, j, e) /\ TableCategory(Take(s, i - 1)) # None) =>
                        /\ c_cat = TableCategory(Take(s, i - 1))
                        /\ c_out.summary = Drop(s, e)

\* The rest of a `type: rest` summary itself reads `(scope): ` somewhere
\* after its first '(' .
RestLooksScoped(s) ==
    \E i \in 1..Len(s) : \E j \in (i + 2)..Len(s) :
        /\ \A x \in 1..(i - 1) : s[x] # "("
        /\ s[i] = "("
        /\ \A x \in (i + 1)..(j - 1) : s[x] # ")"
        /\ s[j] = ")"
        /\ j + 2 <= Len(s) /\ s[j + 1] = ":" /\ s[j + 2] \in Whitespace

\* C4 where the code agrees with it: the scoped form always, the simple form
\* unless the rest reads `(scope): `.
C4_HoldsOutsideScopedRest ==
    ClassifyDone =>
        LET s == c_in.summary
        IN  /\ \A k \in 1..Len(s) : \A e \in (k + 1)..Len(s) :
                  (SimpleForm(s, k, e) /\ TableCategory(Take(s, k - 1)) # None
                     /\ ~RestLooksScoped(s)) =>
                      /\ c_cat = TableCategory(Take(s, k - 1))
                      /\ c_out.summary = Drop(s, e)
            /\ \A i \in 1..Len(s) : \A j \in (i + 2)..Len(s) : \A e \in (j + 2)..Len(s) :
                  (ScopedForm(s, i, j, e) /\ TableCategory(Take(s, i - 1)) # None) =>
                      /\ c_cat = TableCategory(Take(s, i - 1))
                      /\ c_out.summary = Drop(s, e)


\* The summary carries a recognized prefix, in the simple or the scoped form.
HasRecognizedPrefix(s) ==
    \/ \E k \in 1..Len(s) : \E e \in (k + 1)..Len(s) :
          SimpleForm(s, k, e) /\ TableCategory(Take(s, k - 1)) # None
    \/ \E i \in 1..Len(s) : \E j \in (i + 2)..Len(s) : \E e \in (j + 2)..Len(s) :
          ScopedForm(s, i, j, e) /\ TableCategory(Take(s, i - 1)) # None

\* The summary was rewritten to the rest of one of the two prefix forms.
RewrittenByPrefixRule(s, t) ==
    \/ \E k \in 1..Len(s) : \E e \in (k + 1)..Len(s) :
          SimpleForm(s, k, e) /\ TableCategory(Take(s, k - 1)) # None /\ t = Drop(s, e)
    \/ \E i \in 1..Len(s) : \E j \in (i + 2)..Len(s) : \E e \in (j + 2)..Len(s) :
          ScopedForm(s, i, j, e) /\ TableCategory(Take(s, i - 1)) # None /\ t = Drop(s, e)

\* The frame of auto_classify: only the summary may change, and only to the
\* rest of a recognized prefix, together with a category.
C5_Frame ==
    /\ c_out.oid = c_in.oid
    /\ c_out.short_id = c_in.short_id
    /\ c_out.body = c_in.body
    /\ (c_out.summary # c_in.summary =>
            c_cat # None /\ RewrittenByPrefixRule(c_in.summary, c_out.summary))

\* C5: a summary with an unrecognized prefix or none (not a release marker, not
\* a bare tweak keyword) gets no classification and stays as it is; the
\* summary changes only along with a category of a prefix rule; oid, short_id
\* and body never change.
C5_UnrecognizedLeftAlone ==
    ClassifyDone =>
        /\ C5_Frame
        /\ (~HasRecognizedPrefix(c_in.summary) /\ ~ReleaseMarkerText(c_in.summary)
              /\ ~BareTweak(c_in.summary)) =>
                (c_cat = None /\ c_out.summary = c_in.summary)

\* C5 with the release marker read as the code reads it (any number of `v`).
C5_HoldsWithCodeMarker ==
    ClassifyDone =>
        /\ C5_Frame
        /\ (~HasRecognizedPrefix(c_in.summary) /\ ~is_release_message(c_in.summary).ok
              /\ ~BareTweak(c_in.summary)) =>
                (c_cat = None /\ c_out.summary = c_in.summary)

\* C6: the release-marker rule classifies a summary Ignore, unrewritten, exactly
\* when it is `-> `, at most one `v`, and a valid version; any other summary
\* starting with `-> ` falls through to the later rules (none of which
\* recognizes a type that starts with `-> `).
C6_ReleaseMarkerExact ==
    ClassifyDone =>
        LET s == c_in.summary
        IN  /\ ReleaseMarkerText(s) => (c_cat = Ignore /\ c_out.summary = s)
            /\ (StartsWith(s, S_arrow) /\ ~ReleaseMarkerText(s)) =>
                  (c_cat = None /\ c_out.summary = s)

\* `-> `, any number of `v`, then a valid semantic version.
ReleaseMarkerAnyV(s) ==
    /\ StartsWith(s, S_arrow)
    /\ \E n \in 0..(Len(s) - 3) :
          /\ \A x \in 4..(3 + n) : s[x] = "v"
          /\ Version_parse(Drop(s, 3 + n)).ok

\* C6 as the code has it: any number of `v` is accepted.
C6_HoldsWithAnyNumberOfV ==
    ClassifyDone =>
        LET s == c_in.summary
        IN  /\ ReleaseMarkerAnyV(s) => (c_cat = Ignore /\ c_out.summary = s)
            /\ (StartsWith(s, S_arrow) /\ ~ReleaseMarkerAnyV(s)) =>
                  (c_cat = None /\ c_out.summary = s)

\* C7: the prefix lookup is the table, by case-insensitive exact match, and
\* every other token has no category; a summary that is exactly `tweak` or
\* `tweaks` in any case is Patch and stays as it is.
C7_PrefixTableExact ==
    /\ PrefixDone => p_out = TableCategory(p_in)
    /\ (ClassifyDone /\ BareTweak(c_in.summary)) =>
          (c_cat = Patch /\ c_out.summary = c_in.summary)

\* C7's cases happen: a listed token in another case was mapped, a near miss
\* was refused, and a bare `Tweaks` was classified.
C7_Witness ==
    \/ PrefixDone /\ p_in = <<"F", "I", "X", "E", "S">> /\ p_out = Patch
    \/ PrefixDone /\ p_in = <<"f", "i", "x", " ">> /\ p_out = None
    \/ ClassifyDone /\ c_in.summary = <<"T", "w", "e", "a", "k", "s">> /\ c_cat = Patch


----------------------------------------------------------------------------
(* Properties of one run of main (Spec)                                    *)

\* The run has got past the version decision of lines 174-213.
VersionDecided == pc \in {"render", "output", "done"} \/ error = E_io

\* build_release_section has been called.
Rendered == section.some

\* C1: whenever the run reaches rendering, new_version > last_version, be the
\* version computed or given with --new-version; the file is never written
\* with new_version <= last_version.
C1_NewVersionGreater ==
    (VersionDecided \/ Rendered \/ file # file_before) =>
        Version_cmp(new_version, last_version) > 0

\* The component of v that the version policy adds one to.
BumpedComponent(v, keys) ==
    LET unstable == Version_cmp(v, Version_new(1, 0, 0)) < 0
    IN  IF Major \in keys THEN (IF unstable THEN v.minor ELSE v.major)
        ELSE IF Minor \in keys THEN (IF unstable THEN v.patch ELSE v.minor)
        ELSE v.patch

\* C1 holds of the runs in which the `+ 1` of the version policy does not
\* overflow: with an explicit version, or the bumped component below
\* u64::MAX.
C1_HoldsWithoutOverflow ==
    ( /\ VersionDecided \/ Rendered \/ file # file_before
      /\ cli.new_version.some \/ BumpedComponent(last_version, DOMAIN grouped) < U64_MAX )
    => Version_cmp(new_version, last_version) > 0

\* --new-version was given and the run got as far as line 174.
ExplicitTried ==
    /\ cli.new_version.some
    /\ VersionDecided \/ error \in {E_version_invalid, E_version_small}

\* C3: an explicit version is used as new_version exactly when it parses and is
\* greater than last_version; otherwise the run fails, nothing is rendered
\* and the file stays as it was.
C3_ExplicitVersion ==
    ExplicitTried =>
        LET parsed == Version_parse(cli.new_version.text)
        IN  IF parsed.ok /\ Version_cmp(parsed.v, last_version) > 0
            THEN error \notin {E_version_invalid, E_version_small} /\ new_version = parsed.v
            ELSE /\ pc = "failed"
                 /\ error = (IF parsed.ok THEN E_version_small ELSE E_version_invalid)
                 /\ ~Rendered
                 /\ file = file_before

\* C3's case happens: a version equal to the previous one was refused.
C3_Witness ==
    /\ pc = "failed"
    /\ error = E_version_small
    /\ cli.new_version.some
    /\ Version_parse(cli.new_version.text).v = last_version

\* commits_since has returned.
Fetched ==
    \/ pc \in {"classify", "resolve", "group", "check", "version", "render", "output", "done"}
    \/ error \in {E_no_commits, E_nothing, E_version_invalid, E_version_small, E_overflow, E_io}

\* The check of lines 165-172 has been made.
Checked ==
    \/ pc \in {"version", "render", "output", "done"}
    \/ error \in {E_nothing, E_version_invalid, E_version_small, E_overflow, E_io}

\* C8: the run fails, with nothing rendered and the file untouched, when there
\* are no commits, and when every commit ended up Ignore.
C8_NothingToRelease ==
    /\ (Fetched /\ commits = <<>>) =>
          (pc = "failed" /\ error = E_no_commits /\ ~Rendered /\ file = file_before)
    /\ (Checked /\ \A i \in 1..Len(classified) : classified[i].cat = Ignore) =>
          (pc = "failed" /\ error = E_nothing /\ ~Rendered /\ file = file_before)

\* C8's case happens: commits exist, one made Ignore by its prefix and one by
\* the prompt, and the run failed.
C8_Witness ==
    /\ error = E_nothing
    /\ Len(commits) = 2
    /\ commits[1].summary = <<"d", "o", "c", "s", ":", " ", "c">>
    /\ commits[2].summary = <<"w", "i", "p">>

\* The loop of lines 155-163 has run.
Grouped ==
    \/ pc \in {"check", "version", "render", "output", "done"}
    \/ error \in {E_nothing, E_version_invalid, E_version_small, E_overflow, E_io}

\* The commits of category k, in the order the commit source delivered them.
CommitsOf(k) ==
    LET idx == {i \in 1..Len(classified) : classified[i].cat = k}
        nth[n \in 1..Cardinality(idx)] ==
            CHOOSE i \in idx : Cardinality({j \in idx : j < i}) = n - 1
    IN  [n \in 1..Cardinality(idx) |-> classified[nth[n]].commit]

\* C9: grouped has no Ignore key and no empty list; each commit of category
\* Major, Minor or Patch is there once, under its category, in delivery
\* order; commits made Ignore are nowhere.
C9_GroupedCommits ==
    Grouped =>
        /\ DOMAIN grouped \subseteq {Major, Minor, Patch}
        /\ \A k \in DOMAIN grouped : grouped[k] # <<>>
        /\ \A k \in {Major, Minor, Patch} :
              IF CommitsOf(k) = <<>> THEN k \notin DOMAIN grouped
              ELSE k \in DOMAIN grouped /\ grouped[k] = CommitsOf(k)
        /\ \A i \in 1..Len(classified) :
              Cardinality({ <<k, n>> \in (DOMAIN grouped) \X (1..Len(classified)) :
                              n <= Len(grouped[k]) /\ grouped[k][n].oid = classified[i].commit.oid })
                 = (IF classified[i].cat = Ignore THEN 0 ELSE 1)

\* C9's case happens: two commits of one category and an ignored one.
C9_Witness ==
    /\ Grouped
    /\ \E k \in DOMAIN grouped : Len(grouped[k]) = 2 /\ grouped[k][1].oid < grouped[k][2].oid
    /\ Len(classified) > 1

----------------------------------------------------------------------------
(* Properties of the version policy (SpecVersion)                          *)

\* last_version < 1.0.0 in semantic-version order: major 0, or the
\* pre-releases of 1.0.0 itself.
BelowOneZeroZero(v) ==
    \/ v.major = 0
    \/ v.major = 1 /\ v.minor = 0 /\ v.patch = 0 /\ v.pre # <<>>

\* The decision table of the version policy.
TableVersion(v, keys) ==
    IF Major \in keys
    THEN IF BelowOneZeroZero(v) THEN Version_new(v.major, v.minor + 1, 0)
         ELSE Version_new(v.major + 1, 0, 0)
    ELSE IF Minor \in keys
    THEN IF BelowOneZeroZero(v) THEN Version_new(v.major, v.minor, v.patch + 1)
         ELSE Version_new(v.major, v.minor + 1, 0)
    ELSE Version_new(v.major, v.minor, v.patch + 1)

\* C2: the computed version is the one of the decision table, the highest
\* category present deciding; in particular 0.3.1+{Major} = 0.4.0,
\* 0.3.1+{Minor} = 0.3.2, 2.1.4+{Major} = 3.0.0, 2.1.4+{Minor} = 2.2.0 and
\* 2.1.4+{Patch} = 2.1.5.
C2_DecisionTable ==
    v_pc # "input" =>
        /\ v_pc = "done"
        /\ v_new = TableVersion(v_last, v_keys)
        /\ (v_last = Version_new(0, 3, 1) /\ v_keys = {Major}) => v_new = Version_new(0, 4, 0)
        /\ (v_last = Version_new(0, 3, 1) /\ v_keys = {Minor}) => v_new = Version_new(0, 3, 2)
        /\ (v_last = Version_new(2, 1, 4) /\ v_keys = {Major}) => v_new = Version_new(3, 0, 0)
        /\ (v_last = Version_new(2, 1, 4) /\ v_keys = {Minor}) => v_new = Version_new(2, 2, 0)
        /\ (v_last = Version_new(2, 1, 4) /\ v_keys = {Patch}) => v_new = Version_new(2, 1, 5)

\* C2 holds of every last_version whose bumped component is below u64::MAX.
C2_HoldsWithoutOverflow ==
    (v_pc # "input" /\ BumpedComponent(v_last, v_keys) < U64_MAX) =>
        /\ v_pc = "done"
        /\ v_new = TableVersion(v_last, v_keys)
        /\ (v_last = Version_new(0, 3, 1) /\ v_keys = {Major}) => v_new = Version_new(0, 4, 0)
        /\ (v_last = Version_new(0, 3, 1) /\ v_keys = {Minor}) => v_new = Version_new(0, 3, 2)
        /\ (v_last = Version_new(2, 1, 4) /\ v_keys = {Major}) => v_new = Version_new(3, 0, 0)
        /\ (v_last = Version_new(2, 1, 4) /\ v_keys = {Minor}) => v_new = Version_new(2, 2, 0)
        /\ (v_last = Version_new(2, 1, 4) /\ v_keys = {Patch}) => v_new = Version_new(2, 1, 5)

----------------------------------------------------------------------------
(* Properties of write_changelog (SpecWrite)                               *)

WhitespaceOnly(s) == \A i \in 1..Len(s) : s[i] \in Whitespace

\* C10: a successful write_changelog(path, S) leaves S followed by the footer
\* when the file was missing or held only white space, and S, an empty line
\* and the old content unchanged otherwise.
C10_WriteChangelog ==
    w_result = "Ok" =>
        IF ~w_prev.exists \/ WhitespaceOnly(w_prev.content)
        THEN w_file = File(w_section \o S_footer)
        ELSE /\ w_file = File(w_section \o <<"\n", "\n">> \o w_prev.content)
             /\ StartsWith(w_file.content, w_section)

\* C10's cases happen: a file of white space only got the footer, and a file
\* with text was kept after the new section.
C10_Witness ==
    /\ w_result = "Ok"
    /\ w_calls = 2
    /\ w_prev.exists /\ ~WhitespaceOnly(w_prev.content)
    /\ Len(w_file.content) > Len(w_prev.content)


----------------------------------------------------------------------------
(* Properties of build_release_section (SpecRender)                        *)

\* s holds sub as a substring.
Contains(s, sub) ==
    \E i \in 1..(Len(s) - Len(sub) + 1) : SubSeq(s, i, i + Len(sub) - 1) = sub

EndsWith(s, suffix) ==
    Len(s) >= Len(suffix) /\ SubSeq(s, Len(s) - Len(suffix) + 1, Len(s)) = suffix

\* The numbers of the set S in increasing order.
Ascending(S) ==
    [n \in 1..Cardinality(S) |-> CHOOSE i \in S : Cardinality({j \in S : j < i}) = n - 1]

\* The lines of a rendered text.
Lines(text) == Split(text, "\n")

HeadingMark == <<"#", "#", "#", " ">>

BulletMark == <<"*", " ">>

\* The line numbers of the subsection headings, and of the bullets.
HeadingAt(lines) == Ascending({i \in 1..Len(lines) : StartsWith(lines[i], HeadingMark)})

BulletAt(lines) == Ascending({i \in 1..Len(lines) : StartsWith(lines[i], BulletMark)})

\* The categories with commits, in the order of the subsections, and the
\* heading of each.
PresentCategories ==
    SelectSeq(<<Major, Minor, Patch>>, LAMBDA k : k \in DOMAIN r_in.groups)

HeadingOf(k) ==
    IF k = Major THEN <<"B", "r", "e", "a", "k", "i", "n", "g", " ", "c", "h", "a", "n", "g", "e", "s">>
    ELSE IF k = Minor THEN <<"N", "e", "w", " ", "f", "e", "a", "t", "u", "r", "e", "s">>
    ELSE <<"B", "u", "g", " ", "f", "i", "x", "e", "s">>

\* The bullets of the j-th subsection: those after its heading and before
\* the next heading.
BulletsOfSubsection(lines, heads, bullets, j) ==
    LET from == heads[j]
        to   == IF j < Len(heads) THEN heads[j + 1] ELSE Len(lines) + 1
    IN  SelectSeq(bullets, LAMBDA i : from < i /\ i < to)

\* C11: the section is the header line, then the subsections Breaking
\* changes, New features, Bug fixes in this order, each only if its category
\* has a commit and each with one bullet per commit of the category in
\* grouping order, then the trailer.
C11_SectionStructure ==
    r_pc = "done" =>
        LET lines   == Lines(r_out)
            heads   == HeadingAt(lines)
            bullets == BulletAt(lines)
        IN  /\ StartsWith(lines[1], <<"#", "#", " ">>)
            /\ Len(heads) = Len(PresentCategories)
            /\ Len(bullets) > 0 /\ 1 < heads[1] /\ heads[1] < bullets[1]
            /\ \A j \in 1..Len(heads) :
                  LET k    == PresentCategories[j]
                      list == r_in.groups[k]
                      at   == BulletsOfSubsection(lines, heads, bullets, j)
                  IN  /\ lines[heads[j]] = HeadingMark \o HeadingOf(k)
                      /\ Len(at) = Len(list)
                      /\ \A n \in 1..Len(list) :
                            Contains(lines[at[n]], <<Backtick>> \o list[n].short_id \o <<Backtick>>)
            /\ \A i \in (bullets[Len(bullets)] + 1)..Len(lines) :
                  lines[i] = <<>> \/ StartsWith(lines[i], <<"[", ".", ".", ".">>)

\* C11's case happens: all three subsections, two commits in one of them.
C11_Witness ==
    /\ r_pc = "done"
    /\ DOMAIN r_in.groups = {Major, Minor, Patch}
    /\ Len(r_in.groups[Minor]) = 2
    /\ LET lines == Lines(r_out)
       IN  /\ Len(HeadingAt(lines)) = 3
           /\ Len(BulletsOfSubsection(lines, HeadingAt(lines), BulletAt(lines), 2)) = 2

----------------------------------------------------------------------------
(* Properties of the bullets (SpecBullet)                                  *)

\* s[p..e] is white space, then `(#`, digits, `)`: a squashed reference.
SquashedSpan(s, p, e) ==
    \E q \in (p + 1)..(e - 3) :
        /\ \A i \in p..(q - 1) : s[i] \in Whitespace
        /\ s[q] = "(" /\ s[q + 1] = "#"
        /\ \A i \in (q + 2)..(e - 1) : IsDigit(s[i])
        /\ s[e] = ")"

\* s[p..Len(s)] is white space, then `#`, then digits up to the end.
TrailingSpan(s, p) ==
    \E q \in (p + 1)..(Len(s) - 1) :
        /\ \A i \in p..(q - 1) : s[i] \in Whitespace
        /\ s[q] = "#"
        /\ \A i \in (q + 1)..Len(s) : IsDigit(s[i])

SquashedSpans(s) == { pe \in (1..Len(s)) \X (1..Len(s)) : SquashedSpan(s, pe[1], pe[2]) }

TrailingStarts(s) == { p \in 1..Len(s) : TrailingSpan(s, p) }

\* The digits at the end of s[p..e], the closing character left out.
DigitsBefore(s, e) ==
    LET d == CHOOSE n \in 0..e : (\A i \in (e - n + 1)..e : IsDigit(s[i]))
                                  /\ (n = e \/ ~IsDigit(s[e - n]))
    IN  SubSeq(s, e - d + 1, e)

\* What the extraction is to give for a summary: the issue id, if any, and
\* the title.  The first squashed reference wins; the trailing form counts
\* only when there is no squashed one.
Extraction(s) ==
    IF SquashedSpans(s) # {}
    THEN LET m == CHOOSE pe \in SquashedSpans(s) : \A o \in SquashedSpans(s) : pe[1] <= o[1]
         IN  [found |-> TRUE, id |-> DigitsBefore(s, m[2] - 1),
              title |-> SubSeq(s, 1, m[1] - 1) \o SubSeq(s, m[2] + 1, Len(s))]
    ELSE IF TrailingStarts(s) # {}
    THEN LET p == CHOOSE x \in TrailingStarts(s) : \A o \in TrailingStarts(s) : x <= o
         IN  [found |-> TRUE, id |-> DigitsBefore(s, Len(s)), title |-> SubSeq(s, 1, p - 1)]
    ELSE [found |-> FALSE, id |-> <<>>, title |-> s]

\* The commit reference and the issue reference of the bullet format.
CommitRefText(remote, short_id) ==
    IF remote.some
    THEN <<" ", "[", Backtick>> \o short_id \o <<Backtick, "]", "(">> \o remote.base_url
            \o <<"c", "o", "m", "m", "i", "t", "/">> \o short_id \o <<")">>
    ELSE <<" ", Backtick>> \o short_id \o <<Backtick>>

IssueRefText(remote, id) ==
    IF remote.some
    THEN <<" ", "(", "[", "#">> \o id \o <<"]", "(">> \o remote.base_url
            \o <<"i", "s", "s", "u", "e", "s", "/">> \o id \o <<")", ")">>
    ELSE <<" ", "(", "#">> \o id \o <<")">>

\* The commit rendered and the line of its bullet.
TheCommit == r_in.groups[Patch][1]

BulletLine(lines) == lines[BulletAt(lines)[1]]

BulletDone == r_pc = "done" /\ DOMAIN r_in.groups = {Patch} /\ Len(r_in.groups[Patch]) = 1

C18_ExtractionOrder ==
    BulletDone =>
        LET x == Extraction(TheCommit.summary)
        IN  BulletLine(Lines(r_out)) =
                BulletMark \o x.title \o <<":">> \o CommitRefText(r_in.remote, TheCommit.short_id)
                    \o (IF x.found THEN IssueRefText(r_in.remote, x.id) ELSE <<>>)

\* C18's case happens: a summary with a squashed reference and a trailing
\* one; the squashed one is taken and the trailing one stays in the title.
C18_Witness ==
    /\ BulletDone
    /\ TheCommit.summary = <<"a", " ", "(", "#", "1", "2", ")", "#", "8">>
    /\ Contains(r_out, <<"*", " ", "a", "#", "8", ":">>)
    /\ Contains(r_out, <<" ", "(", "#", "1", "2", ")", "\n">>)

----------------------------------------------------------------------------
(* Properties of the trailer (SpecRender)                                  *)

\* The comparison link of the rendered section.
ComparisonLink ==
    <<"[", ".", ".", ".", "f", "u", "l", "l", " ", "c", "h", "a", "n", "g", "e", "s", "]", "(">>
        \o r_in.remote.base_url \o <<"c", "o", "m", "p", "a", "r", "e", "/", "v">>
        \o Version_to_string(r_in.last_v) \o <<".", ".", ".", "v">>
        \o Version_to_string(r_in.new_v) \o <<")">>

\* What follows the last bullet: the blank line that ends the subsection,
\* then the trailer.
AfterLastBullet(lines) ==
    LET bullets == BulletAt(lines)
    IN  SubSeq(lines, bullets[Len(bullets)] + 1, Len(lines))

\* C13: the trailer is the comparison link exactly when there is a remote
\* and last_version is not 0.0.0, and a single blank line otherwise; with
\* last_version 0.0.0 and a remote the text never holds `compare/v0.0.0`.
C13_Trailer ==
    r_pc = "done" =>
        LET rest == AfterLastBullet(Lines(r_out))
        IN  /\ IF r_in.remote.some /\ r_in.last_v # Version_new(0, 0, 0)
               THEN rest = <<<<>>, <<>>, ComparisonLink, <<>>, <<>>>>
               ELSE rest = <<<<>>, <<>>, <<>>>>
            /\ (r_in.remote.some /\ r_in.last_v = Version_new(0, 0, 0)) =>
                  ~Contains(r_out, <<"c", "o", "m", "p", "a", "r", "e", "/", "v", "0", ".", "0", ".", "0">>)

\* C13's case happens: a remote and last_version 0.0.0: links to the
\* commits, but no comparison link.
C13_Witness ==
    /\ r_pc = "done"
    /\ r_in.remote.some
    /\ r_in.last_v = Version_new(0, 0, 0)
    /\ Contains(r_out, <<"c", "o", "m", "m", "i", "t", "/">>)
    /\ ~Contains(r_out, <<"f", "u", "l", "l", " ", "c", "h", "a", "n", "g", "e", "s">>)
    /\ EndsWith(r_out, <<")", "\n", "\n", "\n">>)

----------------------------------------------------------------------------
(* Properties of parse_remote_url (SpecUrl)                                *)

\* C14: parse_remote_url returns a RemoteInfo exactly for a url that starts
\* with `git@` and holds a `:`, or starts with `https://`; the base_url of
\* every RemoteInfo returned ends with `/`.
C14_RemoteInfoForms ==
    u_pc = "done" =>
        /\ u_out.some <=>
              \/ StartsWith(u_in, <<"g", "i", "t", "@">>) /\ (\E i \in 1..Len(u_in) : u_in[i] = ":")
              \/ StartsWith(u_in, <<"h", "t", "t", "p", "s", ":", "/", "/">>)
        /\ u_out.some => (u_out.base_url # <<>> /\ u_out.base_url[Len(u_out.base_url)] = "/")

\* C14's case happens: an https url without a slash at its end was accepted.
C14_Witness ==
    /\ u_pc = "done"
    /\ u_in = <<"h", "t", "t", "p", "s", ":", "/", "/", "h", "/", "o", "/", "r">>
    /\ u_out.some
    /\ u_out.base_url = u_in \o <<"/">>

\* The spellings of the end of a remote url: with or without `.git`, with
\* or without a last `/`.
Spellings == { <<>>, <<".", "g", "i", "t">>, <<"/">>, <<".", "g", "i", "t", "/">> }

\* The paths of the form owner/repo.
OwnerRepoPaths == { pa \in UrlPaths : \E i \in 2..(Len(pa) - 1) : pa[i] = "/" }

\* C15: for every host and path the SSH form and the HTTPS form of a remote,
\* in each of the four spellings, give the base_url https://host/path/.
C15_SpellingsNormalize ==
    u_pc = "done" =>
        \A h \in UrlHosts \ {<<>>} : \A pa \in OwnerRepoPaths : \A t \in Spellings :
            ( \/ u_in = <<"g", "i", "t", "@">> \o h \o <<":">> \o pa \o t
              \/ u_in = <<"h", "t", "t", "p", "s", ":", "/", "/">> \o h \o <<"/">> \o pa \o t )
            => /\ u_out.some
               /\ u_out.base_url = <<"h", "t", "t", "p", "s", ":", "/", "/">> \o h \o <<"/">> \o pa \o <<"/">>

\* C15 holds of every spelling but the HTTPS one with `.git/`.
C15_HoldsButHttpsGitSlash ==
    u_pc = "done" =>
        \A h \in UrlHosts \ {<<>>} : \A pa \in OwnerRepoPaths : \A t \in Spellings :
            ( \/ u_in = <<"g", "i", "t", "@">> \o h \o <<":">> \o pa \o t
              \/ /\ u_in = <<"h", "t", "t", "p", "s", ":", "/", "/">> \o h \o <<"/">> \o pa \o t
                 /\ t # <<".", "g", "i", "t", "/">> )
            => /\ u_out.some
               /\ u_out.base_url = <<"h", "t", "t", "p", "s", ":", "/", "/">> \o h \o <<"/">> \o pa \o <<"/">>

----------------------------------------------------------------------------
(* Properties of the resolution of unclassified commits (Spec)             *)

\* The unclassified commits have been resolved.
Resolved == pc \notin {"start", "commits", "classify", "resolve"} /\ classified # <<>>

\* The category of the item at an index of the prompt's list.
ItemCategory(index) == <<Patch, Minor, Major, Ignore>>[index + 1]

\* C16: once the unclassified commits are resolved, every commit has exactly
\* one category; a commit auto_classify classified keeps that category and
\* was not prompted for; a commit it could not classify is Patch without a
\* prompt in non-interactive mode, and in interactive mode has the category
\* the prompt returned, Patch if the prompt failed; no error comes of it.
C16_UnclassifiedResolved ==
    Resolved =>
        /\ Len(classified) = Len(commits)
        /\ Len(answers) = Len(commits)
        /\ pc = "group" => error = None
        /\ \A i \in 1..Len(commits) :
              LET auto == auto_classify(commits[i]).cat
                  cat  == classified[i].cat
              IN  /\ cat \in CommitCategory
                  /\ auto # None => (cat = auto /\ ~answers[i].asked)
                  /\ (auto = None /\ cli.non_interactive) => (cat = Patch /\ ~answers[i].asked)
                  /\ (auto = None /\ ~cli.non_interactive) =>
                        /\ answers[i].asked
                        /\ cat = IF answers[i].ok THEN ItemCategory(answers[i].index) ELSE Patch

\* C16's case happens: in interactive mode the prompt for `wip` failed and
\* the prompt was not shown for `feat(x): b (#7)`; the run went on.
C16_Witness ==
    /\ pc = "done"
    /\ ~cli.non_interactive
    /\ Len(commits) = 2
    /\ commits[1].summary = <<"w", "i", "p">>
    /\ commits[2].summary = <<"f", "e", "a", "t", "(", "x", ")", ":", " ", "b", " ", "(", "#", "7", ")">>
    /\ answers[1].asked /\ ~answers[1].ok
    /\ ~answers[2].asked
    /\ classified[1].cat = Patch
    /\ classified[2].cat = Minor

----------------------------------------------------------------------------
(* Properties of auto_classify on a rest with parentheses or colons        *)
(* (SpecClassify)                                                          *)

\* The text after position e holds a '(' or a ':'.
RestHoldsParenOrColon(s, e) == \E x \in (e + 1)..Len(s) : s[x] \in {"(", ":"}

\* C17: a summary `type: rest` with a recognized type, whose rest holds a
\* parenthesis or further colons, is classified by the simple rule on its
\* first colon: the category is the table's for `type` and the summary
\* becomes `rest`.
C17_FirstColonDecides ==
    ClassifyDone =>
        LET s == c_in.summary
        IN  \A k \in 1..Len(s) : \A e \in (k + 1)..Len(s) :
                (SimpleForm(s, k, e) /\ TableCategory(Take(s, k - 1)) # None
                   /\ RestHoldsParenOrColon(s, e)) =>
                    /\ c_cat = TableCategory(Take(s, k - 1))
                    /\ c_out.summary = Drop(s, e)

\* C17 where the code agrees with it: further colons, and parentheses that
\* do not read `(text): `.
C17_HoldsOfFurtherColons ==
    ClassifyDone =>
        LET s == c_in.summary
        IN  \A k \in 1..Len(s) : \A e \in (k + 1)..Len(s) :
                (SimpleForm(s, k, e) /\ TableCategory(Take(s, k - 1)) # None
                   /\ RestHoldsParenOrColon(s, e) /\ ~RestLooksScoped(s)) =>
                    /\ c_cat = TableCategory(Take(s, k - 1))
                    /\ c_out.summary = Drop(s, e)

----------------------------------------------------------------------------
(* Properties of the stability flag (Spec)                                 *)

\* The version policy computed new_version from last_version.
VersionComputed == pc \in {"render", "output", "done"} /\ ~cli.new_version.some

\* No component of v is u64::MAX.
BelowMax(v) == v.major < U64_MAX /\ v.minor < U64_MAX /\ v.patch < U64_MAX

\* The decision table, its column chosen by the major component.
TableVersionByMajor(v, keys) ==
    IF Major \in keys
    THEN IF v.major = 0 THEN Version_new(v.major, v.minor + 1, 0)
         ELSE Version_new(v.major + 1, 0, 0)
    ELSE IF Minor \in keys
    THEN IF v.major = 0 THEN Version_new(v.major, v.minor, v.patch + 1)
         ELSE Version_new(v.major, v.minor + 1, 0)
    ELSE Version_new(v.major, v.minor, v.patch + 1)

\* C19: for every last_version of a run the flag `last_version < 1.0.0`
\* agrees with `major = 0`, and the computed version comes from the unstable
\* column exactly when the major component of last_version is 0.
C19_UnstableIsMajorZero ==
    /\ pc \notin {"start", "failed"} => (unstable_flag(last_version) <=> last_version.major = 0)
    /\ (VersionComputed /\ BelowMax(last_version)) =>
          new_version = TableVersionByMajor(last_version, DOMAIN grouped)

\* C19 holds of every last_version without pre-release identifiers.
C19_HoldsWithoutPreRelease ==
    /\ (pc \notin {"start", "failed"} /\ last_version.pre = <<>>) =>
          (unstable_flag(last_version) <=> last_version.major = 0)
    /\ (VersionComputed /\ BelowMax(last_version) /\ last_version.pre = <<>>) =>
          new_version = TableVersionByMajor(last_version, DOMAIN grouped)

----------------------------------------------------------------------------
(* Properties of the write at the end of a run (Spec)                      *)

\* Every check of the run has passed: commits were found, a commit that is
\* not ignored is among them, and an explicit version is greater than
\* last_version.
ChecksPassed ==
    /\ commits # <<>>
    /\ (DOMAIN grouped) \cap {Major, Minor, Patch} # {}
    /\ section.some
    /\ cli.new_version.some => Version_gt(new_version, last_version)

\* The run is over without the file being meant to change.
FailedOrDryRun == pc = "failed" \/ (pc = "done" /\ cli.dry_run)

\* C20: within one run the file is written at most once; its content has
\* changed only after every check has passed and not in a dry run, and then
\* it is the whole new content; after a failing run and after a dry run the
\* file is as it was before the run.
C20_FileWrittenOnceOrUntouched ==
    /\ writes <= 1
    /\ file # file_before =>
          /\ ChecksPassed
          /\ ~cli.dry_run
          /\ file = write_changelog(file_before, section.text, "ok").file
    /\ FailedOrDryRun => file = file_before

\* C20 holds of every run in which write_changelog does not fail; when it
\* fails the file is as before or empty.
C20_HoldsUnlessWriteFails ==
    /\ writes <= 1
    /\ file # file_before => (ChecksPassed /\ ~cli.dry_run)
    /\ (file # file_before /\ error # E_io) =>
          file = write_changelog(file_before, section.text, "ok").file
    /\ (FailedOrDryRun /\ error # E_io) => file = file_before
    /\ error = E_io => file \in {file_before, File(<<>>)}

----------------------------------------------------------------------------
(* Properties of repeated calls of write_changelog (SpecWrite)             *)

\* The footer text.
FooterText == <<"-", "-", "-", " ", "G", "e", "n", "e", "r", "a", "t", "e", "d", " ", "b", "y", " ",
                "c", "h", "a", "n", "g", "e", "l", "o", "g", "g", "e", "r">>

\* The number of places of s at which the footer text stands.
FooterCount(s) ==
    Cardinality({ i \in 1..(Len(s) - Len(FooterText) + 1) :
                    SubSeq(s, i, i + Len(FooterText) - 1) = FooterText })

RECURSIVE NewestFirst(_)
\* The sections of the calls in log, the newest first, an empty line between
\* one and the next.
NewestFirst(log) ==
    IF Len(log) = 1 THEN log[1].section
    ELSE log[Len(log)].section \o <<"\n", "\n">> \o NewestFirst(SubSeq(log, 1, Len(log) - 1))

\* Every call so far was successful, and the first found the file missing or
\* holding white space only.
AllWritesOk ==
    /\ w_log # <<>>
    /\ \A i \in 1..Len(w_log) : w_log[i].ok
    /\ ~w_first.exists \/ WhitespaceOnly(w_first.content)

\* C21: after n >= 1 successful calls on a file that was missing or held white
\* space only, the file holds the sections Sn, ..., S1 in that order, then the
\* footer, which stands in it exactly once and at its end; and a successful
\* call on a file with other content than white space adds no footer.
C21_NewestFirstFooterOnce ==
    /\ AllWritesOk =>
          /\ w_file.exists
          /\ w_file.content = NewestFirst(w_log) \o <<"\n">> \o FooterText \o <<"\n">>
          /\ FooterCount(w_file.content) = 1
          /\ \A i \in 1..Len(w_log) : Contains(w_file.content, w_log[i].section)
    /\ (w_result = "Ok" /\ w_prev.exists /\ ~WhitespaceOnly(w_prev.content)) =>
          FooterCount(w_file.content) = FooterCount(w_prev.content)

\* C21's case happens: three successful calls on a file of white space, with
\* the sections `## A`, `## B`, `## A`, and the footer of the first call is
\* still the only one.
C21_Witness ==
    /\ w_first = File(<<" ", "\n">>)
    /\ Len(w_log) = 3
    /\ \A i \in 1..3 : w_log[i].ok
    /\ w_log[1].section = <<"#", "#", " ", "A", "\n", "\n">>
    /\ w_log[2].section = <<"#", "#", " ", "B", "\n">>
    /\ w_file.content =
          <<"#", "#", " ", "A", "\n", "\n">> \o <<"\n", "\n">>
          \o <<"#", "#", " ", "B", "\n">> \o <<"\n", "\n">>
          \o <<"#", "#", " ", "A", "\n", "\n">> \o <<"\n">> \o FooterText \o <<"\n">>

====
